---- MODULE Spec2Model ----
(***************************************************************************)
(* HashEnv: the encrypted, versioned, access-controlled secret store.      *)
(*                                                                         *)
(* The document store (MongoDB through Mongoose) holds projects, env-file  *)
(* rows and audit-log entries.  Every HTTP request is a small process: an  *)
(* authorization middleware, then the route handler, which runs from one   *)
(* `await` on the store to the next.  One action of this module is one     *)
(* such store operation together with the synchronous code around it, so   *)
(* requests interleave exactly where the handlers can.                     *)
(***************************************************************************)
EXTENDS Integers, Sequences, FiniteSets, TLC

VARIABLES
    projects,   \* Project collection: id -> [createdBy, members, v]
    envFiles,   \* EnvFile collection: set of rows
    envLogs,    \* EnvLog collection, in insertion order
    nextId,     \* next ObjectId the store hands out
    reqs,       \* request slot -> the request it runs and its position
    started,    \* number of requests started so far
    faults,     \* number of store errors so far
    secrets,    \* Secret collection: set of named secrets
    settings,   \* UserSettings collection: user -> panic configuration
    cipher      \* a direct call of the envelope cipher: its blob and its result

vars == <<projects, envFiles, envLogs, nextId, reqs, started, faults, secrets, settings, cipher>>

----------------------------------------------------------------------------
(* Bounds of the model *)

MaxRequests == 3
MaxFaults == 1

(* Program constants *)

IV_LENGTH == 16
AUTH_TAG_LENGTH == 16

(* Finite domains the inputs are drawn from *)

Users == {"u1", "u2", "u3"}
Projects == {"p1", "p2"}
Environments == {"dev", "prod"}
Permissions == {"read", "write"}
Contents == {1, 2, 9}          \* k stands for the text "A=k"
IVs == {0, 1}                  \* values crypto.randomBytes may return

----------------------------------------------------------------------------
(* Envelope cipher: AES-256-GCM under the one master key, over bytes.      *)
(* The keystream depends on the IV; the tag authenticates IV and           *)
(* ciphertext together.                                                    *)

Buffer(len, val) == [len |-> len, val |-> val]

Keystream(ivVal) == (ivVal * 37 + 11) % 256

GcmTag(ivVal, ct) == ivVal * 256 + ct

\* A text is a JavaScript string.  Writing it as UTF-8 (cipher.update(data,
\* 'utf8')) is one-to-one on well-formed strings; a string with an unpaired
\* surrogate has no UTF-8 form and is written as the bytes of U+FFFD.
LoneSurrogate == 216           \* stands for the text "\uD800"
Replacement == 253             \* stands for the text "\uFFFD"

utf8Write(data) == IF data = LoneSurrogate THEN Replacement ELSE data

\* decrypted.toString('utf8'): the text the bytes are the UTF-8 form of
utf8Slice(bytes) == bytes

encryptEnv(data, ivVal) ==
    LET ct == (utf8Write(data) + Keystream(ivVal)) % 256
    IN  [encryptedData |-> Buffer(1, ct),
         iv            |-> Buffer(IV_LENGTH, ivVal),
         authTag       |-> Buffer(AUTH_TAG_LENGTH, GcmTag(ivVal, ct))]

\* faulty variant: the tag is not verified
decryptEnvUnauthenticated(encryptedData, iv, authTag) ==
    IF iv.len # IV_LENGTH
    THEN [ok |-> FALSE, error |-> "Invalid IV length", data |-> 0]
    ELSE IF authTag.len # AUTH_TAG_LENGTH
    THEN [ok |-> FALSE, error |-> "Invalid auth tag length", data |-> 0]
    ELSE [ok |-> TRUE, error |-> "",
          data |-> utf8Slice((encryptedData.val + 256 - Keystream(iv.val)) % 256)]

\* decryptEnv either returns the plaintext or throws
decryptEnv(encryptedData, iv, authTag) ==
    IF iv.len # IV_LENGTH
    THEN [ok |-> FALSE, error |-> "Invalid IV length", data |-> 0]
    ELSE IF authTag.len # AUTH_TAG_LENGTH
    THEN [ok |-> FALSE, error |-> "Invalid auth tag length", data |-> 0]
    ELSE IF authTag.val # GcmTag(iv.val, encryptedData.val)
    THEN [ok |-> FALSE,
          error |-> "Decryption failed: data may be corrupted or tampered with",
          data |-> 0]
    ELSE [ok |-> TRUE, error |-> "",
          data |-> utf8Slice((encryptedData.val + 256 - Keystream(iv.val)) % 256)]

----------------------------------------------------------------------------
(* Records *)

NoProject == [createdBy |-> "", members |-> <<>>, v |-> 0]

NoBlob == [encryptedData |-> Buffer(0, 0), iv |-> Buffer(0, 0),
           authTag |-> Buffer(0, 0)]

NoRow == [id |-> 0, projectId |-> "", environment |-> "", version |-> 0,
          uploadedBy |-> "", blob |-> NoBlob]

NoMetadata == [oldVersion |-> 0, newVersion |-> 0, fileName |-> ""]

\* a user without a UserSettings document
NoSettings == [configured |-> FALSE, flushEnvs |-> FALSE, revokeCollaborators |-> FALSE, downloadEnvs |-> FALSE]

\* what a handler keeps between two awaits
NoSecret == [id |-> 0, projectId |-> "", name |-> "", createdBy |-> "", blob |-> NoBlob]

\* the result object of the panic route
NoResults == [downloadEnvs |-> FALSE, flushEnvs |-> FALSE, revokeCollaborators |-> FALSE,
              downloadContent |-> <<>>, downloadError |-> FALSE, flushError |-> FALSE,
              revokeError |-> FALSE, flushedCount |-> 0]

NoLocal == [row |-> NoRow, nextVersion |-> 0, blob |-> NoBlob, data |-> 0,
            secret |-> NoSecret, flags |-> NoSettings, owned |-> <<>>, k |-> 0, blocks |-> <<>>,
            results |-> NoResults]

\* what a response carries: the row's metadata (never the blob) or content
NoBody == [id |-> 0, version |-> 0, environment |-> "", content |-> 0,
           members |-> <<>>, name |-> "", results |-> NoResults, error |-> "",
           blob |-> NoBlob, items |-> <<>>]

\* no direct call of the cipher under way
NoCall == [pc |-> "idle", data |-> 0, sealed |-> NoBlob, blob |-> NoBlob,
           out |-> [ok |-> FALSE, error |-> "", data |-> 0]]

\* a request as it arrives: route, authenticated user and parameters
NoParams == [projectId |-> "", environment |-> "", content |-> 0, version |-> 0, envFileId |-> 0, memberId |-> "", permission |-> "", secretId |-> 0, name |-> ""]

Request(kind, user, params) ==
    [kind |-> kind, user |-> user, projectId |-> params.projectId,
     environment |-> params.environment, content |-> params.content,
     version |-> params.version, envFileId |-> params.envFileId,
     memberId |-> params.memberId, permission |-> params.permission,
     secretId |-> params.secretId, name |-> params.name,
     pc |-> "auth", project |-> NoProject, local |-> NoLocal,
     status |-> 0, body |-> NoBody]

Idle == [Request("", "", NoParams) EXCEPT !.pc = "idle"]

\* two requests at a time
Slots == {1, 2}

Free(i) == reqs[i].pc \in {"idle", "done"}

\* a request arrives and takes the lowest free slot; at most n run at a time
Begin(R, n) ==
    /\ started < MaxRequests
    /\ \E i \in 1..n :
          /\ Free(i)
          /\ \A j \in 1..n : j < i => ~Free(j)
          /\ \E r \in R : reqs' = [reqs EXCEPT ![i] = r]
    /\ started' = started + 1
    /\ UNCHANGED <<projects, envFiles, envLogs, nextId, faults, secrets, settings, cipher>>

\* res.status(status).json(body): the handler is over, its locals are gone
Respond(i, status, body) ==
    reqs' = [reqs EXCEPT ![i].pc = "done", ![i].status = status, ![i].body = body,
                         ![i].project = NoProject, ![i].local = NoLocal]

\* the store fails an operation (ok = FALSE) at most MaxFaults times
Outcome(ok) ==
    /\ ~ok => faults < MaxFaults
    /\ faults' = IF ok THEN faults ELSE faults + 1

Goto(i, pc) == reqs' = [reqs EXCEPT ![i].pc = pc]

----------------------------------------------------------------------------
(* Permission evaluator *)

isProjectOwner(userId, project) == project.createdBy = userId

\* Array.prototype.find: the first entry that matches, or none
FindMemberIndex(members, userId) ==
    LET hits == {k \in 1..Len(members) : members[k].userId = userId}
    IN  IF hits = {} THEN 0
        ELSE CHOOSE k \in hits : \A j \in hits : k <= j

\* faulty variant: every member passes, whatever permission is required
requireProjectAccessAnyMember(requiredPermission, userId, projectId) ==
    IF projectId \notin DOMAIN projects THEN 404
    ELSE IF isProjectOwner(userId, projects[projectId]) THEN 0
    ELSE IF FindMemberIndex(projects[projectId].members, userId) = 0 THEN 403
    ELSE 0

\* the decision of the middleware: 0 stands for next()
requireProjectAccess(requiredPermission, userId, projectId) ==
    IF projectId \notin DOMAIN projects THEN 404
    ELSE LET project == projects[projectId]
             idx == FindMemberIndex(project.members, userId)
         IN  IF isProjectOwner(userId, project) THEN 0
             ELSE IF idx = 0 THEN 403
             ELSE IF project.members[idx].permission = "write"
                     \/ (requiredPermission = "read"
                         /\ project.members[idx].permission = "read")
                  THEN 0
                  ELSE 403

\* faulty variant: the ownership check is the write check
requireProjectOwnershipAsWrite(userId, projectId) == requireProjectAccess("write", userId, projectId)

\* faulty variant: the ownership check lets every user of an existing project pass
requireProjectOwnershipSkipped(userId, projectId) == IF projectId \notin DOMAIN projects THEN 404 ELSE 0

requireProjectOwnership(userId, projectId) ==
    IF projectId \notin DOMAIN projects THEN 404
    ELSE IF ~isProjectOwner(userId, projects[projectId]) THEN 403
    ELSE 0

\* the permission each route asks of its middleware
SecretRoutes == {"createSecret", "updateSecret", "deleteSecret", "secretContent"}
ListRoutes == {"versions", "listSecrets"}
AccessRoutes == {"upload", "download", "content"} \cup SecretRoutes \cup ListRoutes
OwnerRoutes == {"edit", "delete", "addMember", "removeMember"}

\* faulty variant: the secret routes ask for read access only
RequiredPermissionReadForSecrets(kind) == IF kind = "upload" THEN "write" ELSE "read"

RequiredPermission(kind) == IF kind \in {"upload", "createSecret", "updateSecret", "deleteSecret"} THEN "write" ELSE "read"

\* where each handler starts
FirstStep(kind) ==
    CASE kind = "upload" -> "findLatest"
      [] kind = "download" -> "find"
      [] kind = "content" -> "find"
      [] kind \in SecretRoutes -> "find"
      [] kind \in ListRoutes -> "find"
      [] kind = "edit" -> "find"
      [] kind = "delete" -> "find"
      [] kind = "addMember" -> "save"
      [] kind = "removeMember" -> "save"

Admit(i, decision) ==
    IF decision = 0
    THEN reqs' = [reqs EXCEPT ![i].pc = FirstStep(reqs[i].kind),
                              ![i].project = projects[reqs[i].projectId]]
    ELSE Respond(i, decision, NoBody)

ProjectAccessStep(i) ==
    /\ reqs[i].pc = "auth"
    /\ reqs[i].kind \in AccessRoutes
    /\ Admit(i, requireProjectAccess(RequiredPermission(reqs[i].kind),
                                     reqs[i].user, reqs[i].projectId))
    /\ UNCHANGED <<projects, envFiles, envLogs, nextId, started, faults, secrets, settings, cipher>>

ProjectOwnershipStep(i) ==
    /\ reqs[i].pc = "auth"
    /\ reqs[i].kind \in OwnerRoutes
    /\ Admit(i, requireProjectOwnership(reqs[i].user, reqs[i].projectId))
    /\ UNCHANGED <<projects, envFiles, envLogs, nextId, started, faults, secrets, settings, cipher>>

----------------------------------------------------------------------------
(* Audit log *)

\* faulty variant: the entry is written twice
logEnvActionTwice(ok, projectId, userId, action, environment, metadata, envFileId, version) ==
    LET entry == [projectId |-> projectId, envFileId |-> envFileId, environment |-> environment, version |-> version, action |-> action, performedBy |-> userId, metadata |-> metadata]
    IN  IF ok THEN envLogs \o <<entry, entry>> ELSE envLogs

\* ok = FALSE: the actor lookup or EnvLog.create failed; the error is
\* swallowed and nothing is appended
logEnvAction(ok, projectId, userId, action, environment, metadata, envFileId, version) ==
    IF ok
    THEN Append(envLogs, [projectId |-> projectId, envFileId |-> envFileId,
                          environment |-> environment, version |-> version,
                          action |-> action, performedBy |-> userId,
                          metadata |-> metadata])
    ELSE envLogs

----------------------------------------------------------------------------
(* Store queries on the EnvFile collection *)

RowsOf(projectId, environment) ==
    {f \in envFiles : f.projectId = projectId /\ f.environment = environment}

\* findOne({projectId, environment}).sort({version: -1}): the rows a
\* descending sort may put first
LatestRows(projectId, environment) ==
    {f \in RowsOf(projectId, environment) :
        \A g \in RowsOf(projectId, environment) : g.version <= f.version}

\* faulty variant: the query returns the whole document
selectEverything(doc) == doc

\* .select('-encryptedData -iv -authTag'): the document without its three
\* Buffers
select(doc) == [doc EXCEPT !.blob = NoBlob]

Metadata(row) ==
    LET doc == select(row)
    IN  [NoBody EXCEPT !.id = doc.id, !.version = doc.version, !.environment = doc.environment, !.blob = doc.blob]


SetLocal(i, pc, local) == reqs' = [reqs EXCEPT ![i].pc = pc, ![i].local = local]

RowById(id) == {f \in envFiles : f.id = id}

\* faulty variant: the lookup is by _id alone
RowByIdAnyProject(id, projectId) == RowById(id)

\* EnvFile.findOne({_id: envFileId, projectId})
RowByIdIn(id, projectId) == {f \in envFiles : f.id = id /\ f.projectId = projectId}

\* EnvFile.findOne({projectId, environment, version})
RowsAt(projectId, environment, version) ==
    {f \in RowsOf(projectId, environment) : f.version = version}

\* EnvFile.find(query).sort({environment: 1, version: -1}): the versions listed
\* for one environment, highest first
RECURSIVE SortDesc(_)
SortDesc(S) ==
    IF S = {} THEN <<>>
    ELSE LET top == CHOOSE f \in S : \A g \in S : g.version <= f.version
         IN  <<Metadata(top)>> \o SortDesc(S \ {top})

listVersions(projectId, environment) == SortDesc(RowsOf(projectId, environment))

\* GET /:projectId/env/versions: the versions of one environment, or of
\* every environment ("" stands for an omitted query parameter), sorted by
\* environment, then by version, highest first
VersionsList(i) ==
    /\ reqs[i].pc = "find"
    /\ reqs[i].kind = "versions"
    /\ LET envFiles_ == IF reqs[i].environment = ""
                        THEN listVersions(reqs[i].projectId, "dev") \o listVersions(reqs[i].projectId, "prod")
                        ELSE listVersions(reqs[i].projectId, reqs[i].environment)
       IN  Respond(i, 200, [NoBody EXCEPT !.items = envFiles_])
    /\ UNCHANGED <<projects, envFiles, envLogs, nextId, started, faults, secrets, settings, cipher>>

----------------------------------------------------------------------------
(* POST /:projectId/env -- upload *)

\* faulty variant: the latest version is taken over without the increment
nextVersionNoIncrement(projectId, environment) ==
    IF LatestRows(projectId, environment) = {} THEN 1
    ELSE (CHOOSE f \in LatestRows(projectId, environment) : TRUE).version

nextVersion(projectId, environment) ==
    IF LatestRows(projectId, environment) = {} THEN 1
    ELSE (CHOOSE f \in LatestRows(projectId, environment) : TRUE).version + 1

\* encrypt, then read the latest version of the pair
UploadFindLatest(i) ==
    /\ reqs[i].pc = "findLatest"
    /\ \E ivVal \in IVs :
         SetLocal(i, "create",
                  [reqs[i].local EXCEPT
                     !.blob = encryptEnv(reqs[i].content, ivVal),
                     !.nextVersion = nextVersion(reqs[i].projectId, reqs[i].environment)])
    /\ UNCHANGED <<projects, envFiles, envLogs, nextId, started, faults, secrets, settings, cipher>>

\* EnvFile.create: the collection has no unique index, every insert is kept
UploadCreate(i) ==
    /\ reqs[i].pc = "create"
    /\ LET row == [id |-> nextId, projectId |-> reqs[i].projectId,
                   environment |-> reqs[i].environment,
                   version |-> reqs[i].local.nextVersion,
                   uploadedBy |-> reqs[i].user, blob |-> reqs[i].local.blob]
       IN  /\ envFiles' = envFiles \cup {row}
           /\ SetLocal(i, "log", [reqs[i].local EXCEPT !.row = row])
    /\ nextId' = nextId + 1
    /\ UNCHANGED <<projects, envLogs, started, faults, secrets, settings, cipher>>

UploadLog(i) ==
    /\ reqs[i].pc = "log"
    /\ reqs[i].kind = "upload"
    /\ \E ok \in BOOLEAN :
         /\ Outcome(ok)
         /\ envLogs' = logEnvAction(ok, reqs[i].projectId, reqs[i].user, "upload", reqs[i].environment, [NoMetadata EXCEPT !.newVersion = reqs[i].local.nextVersion], reqs[i].local.row.id, reqs[i].local.nextVersion)
    /\ Goto(i, "respond")
    /\ UNCHANGED <<projects, envFiles, nextId, started, secrets, settings, cipher>>

\* EnvFile.findById(envFile._id).select('-encryptedData -iv -authTag')
PopulatedBody(id) ==
    IF RowById(id) = {} THEN NoBody
    ELSE Metadata(CHOOSE f \in RowById(id) : TRUE)

UploadRespond(i) ==
    /\ reqs[i].pc = "respond"
    /\ reqs[i].kind = "upload"
    /\ Respond(i, 201, PopulatedBody(reqs[i].local.row.id))
    /\ UNCHANGED <<projects, envFiles, envLogs, nextId, started, faults, secrets, settings, cipher>>

----------------------------------------------------------------------------
(* GET /:projectId/env -- download *)

\* faulty variant: the requested version is ignored
DownloadCandidatesIgnoreVersion(projectId, environment, version) == LatestRows(projectId, environment)

\* version 0 stands for an omitted version (`if (version)`)
DownloadCandidates(projectId, environment, version) ==
    IF version # 0 THEN RowsAt(projectId, environment, version)
    ELSE LatestRows(projectId, environment)

\* faulty variant: the download is logged before the row is decrypted
DownloadFindLogging(i) ==
    /\ reqs[i].pc = "find"
    /\ reqs[i].kind = "download"
    /\ LET found == DownloadCandidates(reqs[i].projectId, reqs[i].environment, reqs[i].version)
       IN  IF found = {} THEN Respond(i, 404, [NoBody EXCEPT !.error = "Environment file not found"]) /\ UNCHANGED envLogs
           ELSE \E row \in found :
                  LET plain == decryptEnv(row.blob.encryptedData, row.blob.iv, row.blob.authTag)
                  IN  IF plain.ok
                      THEN SetLocal(i, "log", [reqs[i].local EXCEPT !.row = row, !.data = plain.data]) /\ UNCHANGED envLogs
                      ELSE /\ envLogs' = logEnvAction(TRUE, reqs[i].projectId, reqs[i].user, "download", reqs[i].environment, [NoMetadata EXCEPT !.fileName = ".env"], row.id, row.version)
                           /\ Respond(i, 500, [NoBody EXCEPT !.error = "Failed to download environment file"])
    /\ UNCHANGED <<projects, envFiles, nextId, started, faults, secrets, settings, cipher>>

DownloadFind(i) ==
    /\ reqs[i].pc = "find"
    /\ reqs[i].kind = "download"
    /\ LET found == DownloadCandidates(reqs[i].projectId, reqs[i].environment, reqs[i].version)
       IN  IF found = {} THEN Respond(i, 404, [NoBody EXCEPT !.error = "Environment file not found"])
           ELSE \E row \in found :
                  LET plain == decryptEnv(row.blob.encryptedData, row.blob.iv, row.blob.authTag)
                  IN  IF plain.ok
                      THEN SetLocal(i, "log", [reqs[i].local EXCEPT !.row = row, !.data = plain.data])
                      ELSE Respond(i, 500, [NoBody EXCEPT !.error = "Failed to download environment file"])
    /\ UNCHANGED <<projects, envFiles, envLogs, nextId, started, faults, secrets, settings, cipher>>

DownloadLog(i) ==
    /\ reqs[i].pc = "log"
    /\ reqs[i].kind = "download"
    /\ \E ok \in BOOLEAN :
         /\ Outcome(ok)
         /\ envLogs' = logEnvAction(ok, reqs[i].projectId, reqs[i].user, "download", reqs[i].environment, [NoMetadata EXCEPT !.fileName = ".env"], reqs[i].local.row.id, reqs[i].local.row.version)
    /\ Respond(i, 200, [NoBody EXCEPT !.content = reqs[i].local.data])
    /\ UNCHANGED <<projects, envFiles, nextId, started, secrets, settings, cipher>>

----------------------------------------------------------------------------
(* GET /:projectId/env/:envFileId/content -- content for the editor *)

ContentFind(i) ==
    /\ reqs[i].pc = "find"
    /\ reqs[i].kind = "content"
    /\ LET found == RowByIdIn(reqs[i].envFileId, reqs[i].projectId)
       IN  IF found = {} THEN Respond(i, 404, NoBody)
           ELSE \E row \in found :
                  LET plain == decryptEnv(row.blob.encryptedData, row.blob.iv, row.blob.authTag)
                  IN  IF plain.ok
                      THEN Respond(i, 200, [NoBody EXCEPT !.content = plain.data])
                      ELSE Respond(i, 500, NoBody)
    /\ UNCHANGED <<projects, envFiles, envLogs, nextId, started, faults, secrets, settings, cipher>>

----------------------------------------------------------------------------
(* PUT /:projectId/env/:envFileId -- edit in place *)

EditFind(i) ==
    /\ reqs[i].pc = "find"
    /\ reqs[i].kind = "edit"
    /\ LET found == RowByIdIn(reqs[i].envFileId, reqs[i].projectId)
       IN  IF found = {} THEN Respond(i, 404, NoBody)
           ELSE \E row \in found : SetLocal(i, "save", [reqs[i].local EXCEPT !.row = row])
    /\ UNCHANGED <<projects, envFiles, envLogs, nextId, started, faults, secrets, settings, cipher>>

\* faulty variant: the edit also advances the row's version
SaveBlobAsNewVersion(id, blob) == {IF f.id = id THEN [f EXCEPT !.blob = blob, !.version = @ + 1] ELSE f : f \in envFiles}

\* envFile.save() writes the three modified paths of the document with this
\* _id and throws when the document is gone
SaveBlob(id, blob) == {IF f.id = id THEN [f EXCEPT !.blob = blob] ELSE f : f \in envFiles}

EditSave(i) ==
    /\ reqs[i].pc = "save"
    /\ reqs[i].kind = "edit"
    /\ IF RowById(reqs[i].local.row.id) = {}
       THEN /\ Respond(i, 500, NoBody)
            /\ UNCHANGED envFiles
       ELSE \E ivVal \in IVs :
              /\ envFiles' = SaveBlob(reqs[i].local.row.id, encryptEnv(reqs[i].content, ivVal))
              /\ Goto(i, "log")
    /\ UNCHANGED <<projects, envLogs, nextId, started, faults, secrets, settings, cipher>>

EditLog(i) ==
    /\ reqs[i].pc = "log"
    /\ reqs[i].kind = "edit"
    /\ \E ok \in BOOLEAN :
         /\ Outcome(ok)
         /\ envLogs' = logEnvAction(ok, reqs[i].projectId, reqs[i].user, "edit", reqs[i].local.row.environment, [NoMetadata EXCEPT !.oldVersion = reqs[i].local.row.version, !.newVersion = reqs[i].local.row.version], reqs[i].envFileId, reqs[i].local.row.version)
    /\ Goto(i, "respond")
    /\ UNCHANGED <<projects, envFiles, nextId, started, secrets, settings, cipher>>

EditRespond(i) ==
    /\ reqs[i].pc = "respond"
    /\ reqs[i].kind = "edit"
    /\ Respond(i, 200, PopulatedBody(reqs[i].local.row.id))
    /\ UNCHANGED <<projects, envFiles, envLogs, nextId, started, faults, secrets, settings, cipher>>

----------------------------------------------------------------------------
(* DELETE /:projectId/env/:envFileId *)

\* faulty variant: the row is removed without the audit step
DeleteAfterFindSkipLog == "remove"

\* the step that follows a successful lookup
DeleteAfterFind == "log"

DeleteFind(i) ==
    /\ reqs[i].pc = "find"
    /\ reqs[i].kind = "delete"
    /\ LET found == RowByIdIn(reqs[i].envFileId, reqs[i].projectId)
       IN  IF found = {} THEN Respond(i, 404, NoBody)
           ELSE \E row \in found : SetLocal(i, DeleteAfterFind, [reqs[i].local EXCEPT !.row = row])
    /\ UNCHANGED <<projects, envFiles, envLogs, nextId, started, faults, secrets, settings, cipher>>

\* faulty variant: a failed audit write aborts the delete
DeleteLogAborting(i) ==
    /\ reqs[i].pc = "log"
    /\ reqs[i].kind = "delete"
    /\ \E ok \in BOOLEAN :
         /\ Outcome(ok)
         /\ envLogs' = logEnvAction(ok, reqs[i].projectId, reqs[i].user, "delete", reqs[i].local.row.environment, [NoMetadata EXCEPT !.oldVersion = reqs[i].local.row.version], reqs[i].envFileId, reqs[i].local.row.version)
         /\ IF ok THEN Goto(i, "remove") ELSE Respond(i, 500, NoBody)
    /\ UNCHANGED <<projects, envFiles, nextId, started, secrets, settings, cipher>>

DeleteLog(i) ==
    /\ reqs[i].pc = "log"
    /\ reqs[i].kind = "delete"
    /\ \E ok \in BOOLEAN :
         /\ Outcome(ok)
         /\ envLogs' = logEnvAction(ok, reqs[i].projectId, reqs[i].user, "delete", reqs[i].local.row.environment, [NoMetadata EXCEPT !.oldVersion = reqs[i].local.row.version], reqs[i].envFileId, reqs[i].local.row.version)
    /\ Goto(i, "remove")
    /\ UNCHANGED <<projects, envFiles, nextId, started, secrets, settings, cipher>>

\* EnvFile.findByIdAndDelete: removes the row if it is still there; a store
\* error (ok = FALSE) reaches the catch block
DeleteRemove(i) ==
    /\ reqs[i].pc = "remove"
    /\ \E ok \in BOOLEAN :
         /\ Outcome(ok)
         /\ IF ok
            THEN /\ envFiles' = envFiles \ RowById(reqs[i].envFileId)
                 /\ Respond(i, 200, NoBody)
            ELSE /\ UNCHANGED envFiles
                 /\ Respond(i, 500, NoBody)
    /\ UNCHANGED <<projects, envLogs, nextId, started, secrets, settings, cipher>>

----------------------------------------------------------------------------
(* POST /:id/members and DELETE /:id/members/:userId                        *)
(* project.save() sends only what the handler changed on the document it   *)
(* loaded in the middleware: a push becomes an atomic $push that bumps the *)
(* version key, a changed element is set by position where the version key *)
(* still matches, a replaced array is set where the version key still      *)
(* matches and bumps it; a mismatch throws VersionError.  A handler that   *)
(* changed nothing sends nothing.                                          *)

AddMemberSave(i) ==
    /\ reqs[i].pc = "save"
    /\ reqs[i].kind = "addMember"
    /\ LET pid == reqs[i].projectId
           project == reqs[i].project
           existingMemberIndex == FindMemberIndex(project.members, reqs[i].memberId)
       IN  IF reqs[i].memberId \notin Users
           THEN Respond(i, 404, NoBody) /\ UNCHANGED projects
           ELSE IF existingMemberIndex > 0
           THEN IF project.members[existingMemberIndex].permission = reqs[i].permission
                THEN Goto(i, "respond") /\ UNCHANGED projects
                ELSE IF projects[pid].v # project.v
                THEN Respond(i, 500, NoBody) /\ UNCHANGED projects
                ELSE /\ projects' = [projects EXCEPT ![pid].members[existingMemberIndex].permission = reqs[i].permission]
                     /\ Goto(i, "respond")
           ELSE /\ projects' = [projects EXCEPT ![pid].members = Append(@, [userId |-> reqs[i].memberId, permission |-> reqs[i].permission]), ![pid].v = @ + 1]
                /\ Goto(i, "respond")
    /\ UNCHANGED <<envFiles, envLogs, nextId, started, faults, secrets, settings, cipher>>

\* faulty variant: the filter keeps nobody
FilterMembersNone(members, userId) == SelectSeq(members, LAMBDA m : FALSE)

FilterMembers(members, userId) == SelectSeq(members, LAMBDA m : m.userId # userId)

RemoveMemberSave(i) ==
    /\ reqs[i].pc = "save"
    /\ reqs[i].kind = "removeMember"
    /\ LET pid == reqs[i].projectId
           project == reqs[i].project
           kept == FilterMembers(project.members, reqs[i].memberId)
       IN  IF kept = project.members
           THEN Goto(i, "respond") /\ UNCHANGED projects
           ELSE IF projects[pid].v # project.v
           THEN Respond(i, 500, NoBody) /\ UNCHANGED projects
           ELSE /\ projects' = [projects EXCEPT ![pid].members = kept, ![pid].v = @ + 1]
                /\ Goto(i, "respond")
    /\ UNCHANGED <<envFiles, envLogs, nextId, started, faults, secrets, settings, cipher>>

\* Project.findById(projectId).populate(...) and res.json
MemberRespond(i) ==
    /\ reqs[i].pc = "respond"
    /\ reqs[i].kind \in {"addMember", "removeMember"}
    /\ Respond(i, 200, [NoBody EXCEPT !.members = projects[reqs[i].projectId].members])
    /\ UNCHANGED <<projects, envFiles, envLogs, nextId, started, faults, secrets, settings, cipher>>

----------------------------------------------------------------------------
(* Named secrets: POST, GET content, PUT, DELETE /:projectId/secrets       *)
(* Names arrive trimmed; the name "" and the content 0 stand for a field   *)
(* the body does not carry.                                                *)

SecretsNamed(projectId, name) == {x \in secrets : x.projectId = projectId /\ x.name = name}

\* Secret.findOne({_id: secretId, projectId})
SecretByIdIn(id, projectId) == {x \in secrets : x.id = id /\ x.projectId = projectId}

\* faulty variant: the index on (projectId, name) is not unique
DuplicateKeyNotEnforced(id, projectId, name) == FALSE

\* the unique index on (projectId, name): would this write be refused
DuplicateKey(id, projectId, name) == \E x \in SecretsNamed(projectId, name) : x.id # id

\* the metadata of a secret, without encryptedData, iv and authTag
SecretBody(id) ==
    IF \E x \in secrets : x.id = id
    THEN LET x == select(CHOOSE y \in secrets : y.id = id) IN [NoBody EXCEPT !.id = x.id, !.name = x.name, !.blob = x.blob]
    ELSE NoBody

SecretCreateFind(i) ==
    /\ reqs[i].pc = "find"
    /\ reqs[i].kind = "createSecret"
    /\ IF SecretsNamed(reqs[i].projectId, reqs[i].name) # {}
       THEN Respond(i, 400, NoBody)
       ELSE \E ivVal \in IVs : SetLocal(i, "insert", [reqs[i].local EXCEPT !.blob = encryptEnv(reqs[i].content, ivVal)])
    /\ UNCHANGED <<projects, envFiles, envLogs, nextId, started, faults, secrets, settings, cipher>>

\* Secret.create: the unique index refuses a second (projectId, name)
SecretInsert(i) ==
    /\ reqs[i].pc = "insert"
    /\ LET secret == [id |-> nextId, projectId |-> reqs[i].projectId, name |-> reqs[i].name,
                      createdBy |-> reqs[i].user, blob |-> reqs[i].local.blob]
       IN  IF DuplicateKey(secret.id, secret.projectId, secret.name)
           THEN Respond(i, 400, NoBody) /\ UNCHANGED <<secrets, nextId>>
           ELSE /\ secrets' = secrets \cup {secret}
                /\ nextId' = nextId + 1
                /\ SetLocal(i, "respond", [reqs[i].local EXCEPT !.secret = secret])
    /\ UNCHANGED <<projects, envFiles, envLogs, started, faults, settings, cipher>>

SecretRespond(i) ==
    /\ reqs[i].pc = "respond"
    /\ reqs[i].kind \in {"createSecret", "updateSecret"}
    /\ Respond(i, IF reqs[i].kind = "createSecret" THEN 201 ELSE 200, SecretBody(reqs[i].local.secret.id))
    /\ UNCHANGED <<projects, envFiles, envLogs, nextId, started, faults, secrets, settings, cipher>>

SecretContent(i) ==
    /\ reqs[i].pc = "find"
    /\ reqs[i].kind = "secretContent"
    /\ LET found == SecretByIdIn(reqs[i].secretId, reqs[i].projectId)
       IN  IF found = {} THEN Respond(i, 404, NoBody)
           ELSE \E x \in found :
                  LET plain == decryptEnv(x.blob.encryptedData, x.blob.iv, x.blob.authTag)
                  IN  IF plain.ok
                      THEN Respond(i, 200, [NoBody EXCEPT !.id = x.id, !.name = x.name, !.content = plain.data])
                      ELSE Respond(i, 500, NoBody)
    /\ UNCHANGED <<projects, envFiles, envLogs, nextId, started, faults, secrets, settings, cipher>>

\* the name is to change: `name !== undefined && name.trim() !== secret.name`
NameModified(name, secret) == name # "" /\ name # secret.name

\* `if (content !== undefined)`: re-encrypt before the save
SecretToSave(i, secret) ==
    IF reqs[i].content # 0
    THEN \E ivVal \in IVs : SetLocal(i, "save", [reqs[i].local EXCEPT !.secret = secret, !.blob = encryptEnv(reqs[i].content, ivVal)])
    ELSE SetLocal(i, "save", [reqs[i].local EXCEPT !.secret = secret])

SecretUpdateFind(i) ==
    /\ reqs[i].pc = "find"
    /\ reqs[i].kind = "updateSecret"
    /\ LET found == SecretByIdIn(reqs[i].secretId, reqs[i].projectId)
       IN  IF found = {} THEN Respond(i, 404, NoBody)
           ELSE \E x \in found :
                  IF NameModified(reqs[i].name, x)
                  THEN SetLocal(i, "check", [reqs[i].local EXCEPT !.secret = x])
                  ELSE SecretToSave(i, x)
    /\ UNCHANGED <<projects, envFiles, envLogs, nextId, started, faults, secrets, settings, cipher>>

\* Secret.findOne({projectId, name, _id: {$ne: secretId}})
SecretUpdateCheck(i) ==
    /\ reqs[i].pc = "check"
    /\ IF DuplicateKey(reqs[i].secretId, reqs[i].projectId, reqs[i].name)
       THEN Respond(i, 400, NoBody)
       ELSE SecretToSave(i, reqs[i].local.secret)
    /\ UNCHANGED <<projects, envFiles, envLogs, nextId, started, faults, secrets, settings, cipher>>

\* secret.save() sets the modified paths of the stored document
SavedSecret(x, i) ==
    [x EXCEPT !.name = IF NameModified(reqs[i].name, reqs[i].local.secret) THEN reqs[i].name ELSE @,
              !.blob = IF reqs[i].content # 0 THEN reqs[i].local.blob ELSE @]

\* faulty variant: the new content is written before the name is refused
SecretUpdateSaveBlobFirst(i) ==
    /\ reqs[i].pc = "save"
    /\ reqs[i].kind = "updateSecret"
    /\ LET id == reqs[i].local.secret.id
           stored == {x \in secrets : x.id = id}
           modified == NameModified(reqs[i].name, reqs[i].local.secret) \/ reqs[i].content # 0
       IN  IF stored = {}
           THEN /\ Respond(i, 500, NoBody) \/ (~modified /\ Goto(i, "respond"))
                /\ UNCHANGED secrets
           ELSE IF ~modified
           THEN Goto(i, "respond") /\ UNCHANGED secrets
           ELSE IF NameModified(reqs[i].name, reqs[i].local.secret) /\ DuplicateKey(id, reqs[i].projectId, reqs[i].name)
           THEN /\ Respond(i, 400, NoBody)
                /\ secrets' = {IF x.id = id THEN [x EXCEPT !.blob = IF reqs[i].content # 0 THEN reqs[i].local.blob ELSE @] ELSE x : x \in secrets}
           ELSE /\ secrets' = {IF x.id = id THEN SavedSecret(x, i) ELSE x : x \in secrets}
                /\ Goto(i, "respond")
    /\ UNCHANGED <<projects, envFiles, envLogs, nextId, started, faults, settings, cipher>>

\* a save without modified paths writes nothing; whether it notices that the
\* document is gone depends on the Mongoose version
SecretUpdateSave(i) ==
    /\ reqs[i].pc = "save"
    /\ reqs[i].kind = "updateSecret"
    /\ LET id == reqs[i].local.secret.id
           stored == {x \in secrets : x.id = id}
           modified == NameModified(reqs[i].name, reqs[i].local.secret) \/ reqs[i].content # 0
       IN  IF stored = {}
           THEN /\ Respond(i, 500, NoBody) \/ (~modified /\ Goto(i, "respond"))
                /\ UNCHANGED secrets
           ELSE IF ~modified
           THEN Goto(i, "respond") /\ UNCHANGED secrets
           ELSE IF NameModified(reqs[i].name, reqs[i].local.secret) /\ DuplicateKey(id, reqs[i].projectId, reqs[i].name)
           THEN Respond(i, 400, NoBody) /\ UNCHANGED secrets
           ELSE /\ secrets' = {IF x.id = id THEN SavedSecret(x, i) ELSE x : x \in secrets}
                /\ Goto(i, "respond")
    /\ UNCHANGED <<projects, envFiles, envLogs, nextId, started, faults, settings, cipher>>

\* Secret.findOneAndDelete({_id: secretId, projectId})
SecretDelete(i) ==
    /\ reqs[i].pc = "find"
    /\ reqs[i].kind = "deleteSecret"
    /\ LET found == SecretByIdIn(reqs[i].secretId, reqs[i].projectId)
       IN  IF found = {} THEN Respond(i, 404, NoBody) /\ UNCHANGED secrets
           ELSE secrets' = secrets \ found /\ Respond(i, 200, NoBody)
    /\ UNCHANGED <<projects, envFiles, envLogs, nextId, started, faults, settings, cipher>>

\* the names a secret may have, in the order sort({name: 1}) gives them
NameOrder == <<"a", "b">>

RECURSIVE SecretsSorted(_, _)
SecretsSorted(projectId, k) ==
    IF k > Len(NameOrder) THEN <<>>
    ELSE LET named == SecretsNamed(projectId, NameOrder[k])
         IN  (IF named = {} THEN <<>> ELSE <<SecretBody((CHOOSE x \in named : TRUE).id)>>) \o SecretsSorted(projectId, k + 1)

\* GET /:projectId/secrets: the metadata of the project's secrets by name
SecretsList(i) ==
    /\ reqs[i].pc = "find"
    /\ reqs[i].kind = "listSecrets"
    /\ Respond(i, 200, [NoBody EXCEPT !.items = SecretsSorted(reqs[i].projectId, 1)])
    /\ UNCHANGED <<projects, envFiles, envLogs, nextId, started, faults, secrets, settings, cipher>>

SecretStep(i) ==
    \/ SecretCreateFind(i)
    \/ SecretInsert(i)
    \/ SecretRespond(i)
    \/ SecretContent(i)
    \/ SecretUpdateFind(i)
    \/ SecretUpdateCheck(i)
    \/ SecretUpdateSave(i)
    \/ SecretDelete(i)

----------------------------------------------------------------------------
(* POST /settings/panic -- the panic cascade of the calling user.  The     *)
(* handler loads the caller's settings and the projects the caller owns,   *)
(* then runs the enabled sub-actions in the order export, flush, revoke;   *)
(* each sub-action has its own try/catch and stops at its first error.     *)

\* the order in which the store returns projects
ProjectOrder == <<"p1", "p2", "p3">>

\* faulty variant: the projects the user collaborates on are taken as well
OwnedByOrShared(userId) ==
    LET ids == SelectSeq(ProjectOrder, LAMBDA p : p \in DOMAIN projects /\ (projects[p].createdBy = userId \/ FindMemberIndex(projects[p].members, userId) > 0))
    IN  [k \in 1..Len(ids) |-> [id |-> ids[k], doc |-> projects[ids[k]]]]

\* Project.find({createdBy: userId}): the owned projects as loaded
OwnedBy(userId) ==
    LET ids == SelectSeq(ProjectOrder, LAMBDA p : p \in DOMAIN projects /\ projects[p].createdBy = userId)
    IN  [k \in 1..Len(ids) |-> [id |-> ids[k], doc |-> projects[ids[k]]]]

RowsOfProject(projectId) == {f \in envFiles : f.projectId = projectId}

\* faulty variant: the lowest version of the environment
latestByEnvLowest(rows, env) == CHOOSE f \in rows : f.environment = env /\ \A g \in rows : g.environment = env => f.version <= g.version

\* the loop over find(...).sort({createdAt: -1}) keeps, per environment, the
\* first row it meets with the highest version: the newest of them
latestByEnv(rows, env) ==
    CHOOSE f \in rows :
        /\ f.environment = env
        /\ \A g \in rows : g.environment = env => (g.version < f.version \/ (g.version = f.version /\ g.id <= f.id))

\* one block per key of latestByEnv, in the order the keys were inserted;
\* a row that does not decrypt is left out
RECURSIVE ExportBlocks(_, _, _)
ExportBlocks(projectId, rows, envs) ==
    IF envs = {} THEN <<>>
    ELSE LET newest == CHOOSE f \in rows : f.environment \in envs /\ \A g \in rows : g.environment \in envs => g.id <= f.id
             envFile == latestByEnv(rows, newest.environment)
             plain == decryptEnv(envFile.blob.encryptedData, envFile.blob.iv, envFile.blob.authTag)
         IN  (IF plain.ok
              THEN <<[project |-> projectId, environment |-> envFile.environment, version |-> envFile.version, content |-> plain.data]>>
              ELSE <<>>)
             \o ExportBlocks(projectId, rows, envs \ {newest.environment})

\* where the handler goes when a sub-action is over
ToRevoke(local) ==
    IF ~local.flags.revokeCollaborators THEN [pc |-> "done", local |-> local]
    ELSE IF Len(local.owned) = 0 THEN [pc |-> "done", local |-> [local EXCEPT !.results.revokeCollaborators = TRUE]]
    ELSE [pc |-> "revoke", local |-> [local EXCEPT !.k = 1]]

\* faulty variant: a failed export ends the cascade
ToFlushUnlessFailed(local) ==
    IF local.results.downloadError THEN [pc |-> "done", local |-> local]
    ELSE IF ~local.flags.flushEnvs THEN ToRevoke(local)
    ELSE [pc |-> "count", local |-> local]

ToFlush(local) ==
    IF ~local.flags.flushEnvs THEN ToRevoke(local)
    ELSE [pc |-> "count", local |-> local]

\* faulty variant: the export sub-action is left out
ToExportSkipped(local) == ToFlush(local)

ToExport(local) ==
    IF ~local.flags.downloadEnvs THEN ToFlush(local)
    ELSE IF Len(local.owned) = 0 THEN ToFlush([local EXCEPT !.results.downloadEnvs = TRUE])
    ELSE [pc |-> "export", local |-> [local EXCEPT !.k = 1, !.blocks = <<>>]]

\* continue at the next await, or answer {success: true, results}
Move(i, to) ==
    IF to.pc = "done"
    THEN Respond(i, 200, [NoBody EXCEPT !.results = to.local.results])
    ELSE SetLocal(i, to.pc, to.local)

PanicSettings(i) ==
    /\ reqs[i].pc = "settings"
    /\ LET found == settings[reqs[i].user]
       IN  IF ~found.configured THEN Respond(i, 400, NoBody)
           ELSE IF ~found.flushEnvs /\ ~found.revokeCollaborators /\ ~found.downloadEnvs THEN Respond(i, 400, NoBody)
           ELSE SetLocal(i, "projects", [reqs[i].local EXCEPT !.flags = found])
    /\ UNCHANGED <<projects, envFiles, envLogs, nextId, started, faults, secrets, settings, cipher>>

PanicProjects(i) ==
    /\ reqs[i].pc = "projects"
    /\ Move(i, ToExport([reqs[i].local EXCEPT !.owned = OwnedBy(reqs[i].user)]))
    /\ UNCHANGED <<projects, envFiles, envLogs, nextId, started, faults, secrets, settings, cipher>>

\* one pass of the export loop: EnvFile.find of one owned project
PanicExport(i) ==
    /\ reqs[i].pc = "export"
    /\ LET local == reqs[i].local
           projectId == local.owned[local.k].id
           rows == RowsOfProject(projectId)
           blocks == local.blocks \o ExportBlocks(projectId, rows, {f.environment : f \in rows})
       IN  \E ok \in BOOLEAN :
             /\ Outcome(ok)
             /\ IF ~ok THEN Move(i, ToFlush([local EXCEPT !.results.downloadError = TRUE]))
                ELSE IF local.k < Len(local.owned) THEN SetLocal(i, "export", [local EXCEPT !.k = @ + 1, !.blocks = blocks])
                ELSE Move(i, ToFlush([local EXCEPT !.blocks = blocks, !.results.downloadEnvs = TRUE, !.results.downloadContent = blocks]))
    /\ UNCHANGED <<projects, envFiles, envLogs, nextId, started, secrets, settings, cipher>>

\* EnvFile.countDocuments({projectId: {$in: projectIds}})
PanicCount(i) ==
    /\ reqs[i].pc = "count"
    /\ LET local == reqs[i].local
           countBefore == Cardinality({f \in envFiles : \E k \in 1..Len(local.owned) : local.owned[k].id = f.projectId})
       IN  \E ok \in BOOLEAN :
             /\ Outcome(ok)
             /\ IF ~ok THEN Move(i, ToRevoke([local EXCEPT !.results.flushError = TRUE]))
                ELSE IF Len(local.owned) = 0 THEN Move(i, ToRevoke([local EXCEPT !.results.flushEnvs = TRUE, !.results.flushedCount = countBefore]))
                ELSE SetLocal(i, "flush", [local EXCEPT !.k = 1, !.results.flushedCount = countBefore])
    /\ UNCHANGED <<projects, envFiles, envLogs, nextId, started, secrets, settings, cipher>>

\* faulty variant: the flush deletes the dev rows only
PanicFlushDevOnly(i) ==
    /\ reqs[i].pc = "flush"
    /\ LET local == reqs[i].local
           projectId == local.owned[local.k].id
       IN  \E ok \in BOOLEAN :
             /\ Outcome(ok)
             /\ envFiles' = IF ok THEN envFiles \ RowsOf(projectId, "dev") ELSE envFiles
             /\ IF ~ok THEN Move(i, ToRevoke([local EXCEPT !.results.flushError = TRUE, !.results.flushedCount = 0]))
                ELSE IF local.k < Len(local.owned) THEN SetLocal(i, "flush", [local EXCEPT !.k = @ + 1])
                ELSE Move(i, ToRevoke([local EXCEPT !.results.flushEnvs = TRUE]))
    /\ UNCHANGED <<projects, envLogs, nextId, started, secrets, settings, cipher>>

\* faulty variant: the flush of a project takes the project's audit entries
\* with it
PanicFlushCascading(i) ==
    /\ reqs[i].pc = "flush"
    /\ LET local == reqs[i].local
           projectId == local.owned[local.k].id
       IN  \E ok \in BOOLEAN :
             /\ Outcome(ok)
             /\ envFiles' = IF ok THEN envFiles \ RowsOfProject(projectId) ELSE envFiles
             /\ envLogs' = IF ok THEN SelectSeq(envLogs, LAMBDA entry : entry.projectId # projectId) ELSE envLogs
             /\ IF ~ok THEN Move(i, ToRevoke([local EXCEPT !.results.flushError = TRUE, !.results.flushedCount = 0]))
                ELSE IF local.k < Len(local.owned) THEN SetLocal(i, "flush", [local EXCEPT !.k = @ + 1])
                ELSE Move(i, ToRevoke([local EXCEPT !.results.flushEnvs = TRUE]))
    /\ UNCHANGED <<projects, nextId, started, secrets, settings, cipher>>

\* one pass of the flush loop: EnvFile.deleteMany({projectId})
PanicFlush(i) ==
    /\ reqs[i].pc = "flush"
    /\ LET local == reqs[i].local
           projectId == local.owned[local.k].id
       IN  \E ok \in BOOLEAN :
             /\ Outcome(ok)
             /\ envFiles' = IF ok THEN envFiles \ RowsOfProject(projectId) ELSE envFiles
             /\ IF ~ok THEN Move(i, ToRevoke([local EXCEPT !.results.flushError = TRUE, !.results.flushedCount = 0]))
                ELSE IF local.k < Len(local.owned) THEN SetLocal(i, "flush", [local EXCEPT !.k = @ + 1])
                ELSE Move(i, ToRevoke([local EXCEPT !.results.flushEnvs = TRUE]))
    /\ UNCHANGED <<projects, envLogs, nextId, started, secrets, settings, cipher>>

\* faulty variant: the revoke takes the read collaborators only
PanicRevokeReaders(i) ==
    /\ reqs[i].pc = "revoke"
    /\ LET local == reqs[i].local
           project == local.owned[local.k]
           modified == project.doc.members # <<>>
           conflict == modified /\ projects[project.id].v # project.doc.v
       IN  \E ok \in BOOLEAN :
             /\ Outcome(ok)
             /\ projects' = IF ok /\ modified /\ ~conflict
                            THEN [projects EXCEPT ![project.id].members = SelectSeq(@, LAMBDA m : m.permission = "write"), ![project.id].v = @ + 1]
                            ELSE projects
             /\ IF ~ok \/ conflict THEN Move(i, [pc |-> "done", local |-> [local EXCEPT !.results.revokeError = TRUE]])
                ELSE IF local.k < Len(local.owned) THEN SetLocal(i, "revoke", [local EXCEPT !.k = @ + 1])
                ELSE Move(i, [pc |-> "done", local |-> [local EXCEPT !.results.revokeCollaborators = TRUE]])
    /\ UNCHANGED <<envFiles, envLogs, nextId, started, secrets, settings, cipher>>

\* one pass of the revoke loop: project.members = []; project.save().  An
\* array that was loaded empty is not modified and nothing is written; the
\* replaced array is written where the version key still matches
PanicRevoke(i) ==
    /\ reqs[i].pc = "revoke"
    /\ LET local == reqs[i].local
           project == local.owned[local.k]
           modified == project.doc.members # <<>>
           conflict == modified /\ projects[project.id].v # project.doc.v
       IN  \E ok \in BOOLEAN :
             /\ Outcome(ok)
             /\ projects' = IF ok /\ modified /\ ~conflict
                            THEN [projects EXCEPT ![project.id].members = <<>>, ![project.id].v = @ + 1]
                            ELSE projects
             /\ IF ~ok \/ conflict THEN Move(i, [pc |-> "done", local |-> [local EXCEPT !.results.revokeError = TRUE]])
                ELSE IF local.k < Len(local.owned) THEN SetLocal(i, "revoke", [local EXCEPT !.k = @ + 1])
                ELSE Move(i, [pc |-> "done", local |-> [local EXCEPT !.results.revokeCollaborators = TRUE]])
    /\ UNCHANGED <<envFiles, envLogs, nextId, started, secrets, settings, cipher>>

PanicStep(i) ==
    \/ PanicSettings(i)
    \/ PanicProjects(i)
    \/ PanicExport(i)
    \/ PanicCount(i)
    \/ PanicFlush(i)
    \/ PanicRevoke(i)

----------------------------------------------------------------------------
(* Requests *)

UploadReq(u, p, e, c) == Request("upload", u, [NoParams EXCEPT !.projectId = p, !.environment = e, !.content = c])

DownloadReq(u, p, e, v) == Request("download", u, [NoParams EXCEPT !.projectId = p, !.environment = e, !.version = v])

EditReq(u, p, id, c) == Request("edit", u, [NoParams EXCEPT !.projectId = p, !.envFileId = id, !.content = c])

ContentReq(u, p, id) == Request("content", u, [NoParams EXCEPT !.projectId = p, !.envFileId = id])

CreateSecretReq(u, p, n, c) == Request("createSecret", u, [NoParams EXCEPT !.projectId = p, !.name = n, !.content = c])

UpdateSecretReq(u, p, id, n, c) == Request("updateSecret", u, [NoParams EXCEPT !.projectId = p, !.secretId = id, !.name = n, !.content = c])

DeleteSecretReq(u, p, id) == Request("deleteSecret", u, [NoParams EXCEPT !.projectId = p, !.secretId = id])

SecretContentReq(u, p, id) == Request("secretContent", u, [NoParams EXCEPT !.projectId = p, !.secretId = id])

VersionsReq(u, p, e) == Request("versions", u, [NoParams EXCEPT !.projectId = p, !.environment = e])

ListSecretsReq(u, p) == Request("listSecrets", u, [NoParams EXCEPT !.projectId = p])

\* the panic route has no project middleware
PanicReq(u) == [Request("panic", u, NoParams) EXCEPT !.pc = "settings"]

DeleteReq(u, p, id) == Request("delete", u, [NoParams EXCEPT !.projectId = p, !.envFileId = id])

AddMemberReq(u, p, m, perm) == Request("addMember", u, [NoParams EXCEPT !.projectId = p, !.memberId = m, !.permission = perm])

RemoveMemberReq(u, p, m) == Request("removeMember", u, [NoParams EXCEPT !.projectId = p, !.memberId = m])

----------------------------------------------------------------------------
(* The store after the projects were created: p1 by u1, p2 by u2 *)

NewProject(owner) == [createdBy |-> owner, members |-> <<>>, v |-> 0]

InitStore ==
    /\ envFiles = {}
    /\ envLogs = <<>>
    /\ nextId = 1
    /\ reqs = [i \in Slots |-> Idle]
    /\ started = 0
    /\ faults = 0
    /\ secrets = {}
    /\ settings = [u \in Users |-> NoSettings]
    /\ cipher = NoCall

\* no collaborators yet
Init ==
    /\ InitStore
    /\ projects = [p \in Projects |-> NewProject(IF p = "p1" THEN "u1" ELSE "u2")]

\* u1 has made u2 a write collaborator and u3 a read collaborator of p1
InitShared ==
    /\ InitStore
    /\ projects = [p \in Projects |-> IF p = "p1" THEN [createdBy |-> "u1", members |-> <<[userId |-> "u2", permission |-> "write"], [userId |-> "u3", permission |-> "read"]>>, v |-> 2] ELSE NewProject("u2")]

\* the store before a panic: u1 owns p1 (u2 writes) and p2, and is a write
\* collaborator of u2's p3 (u3 reads); p1 holds dev versions 1 and 2, p2 holds
\* prod version 1, p3 holds dev version 1 uploaded by u1; p1 and p3 each hold
\* the named secret "a"; u1 has configured the panic button
UploadedRow(id, p, e, v, u, c, ivVal) == [id |-> id, projectId |-> p, environment |-> e, version |-> v, uploadedBy |-> u, blob |-> encryptEnv(c, ivVal)]

UploadEntry(f) ==
    [projectId |-> f.projectId, envFileId |-> f.id, environment |-> f.environment, version |-> f.version,
     action |-> "upload", performedBy |-> f.uploadedBy, metadata |-> [NoMetadata EXCEPT !.newVersion = f.version]]

PanicFlags == {[configured |-> TRUE, flushEnvs |-> f, revokeCollaborators |-> r, downloadEnvs |-> d] : f, r, d \in BOOLEAN}

InitPanic ==
    /\ projects = [p \in {"p1", "p2", "p3"} |->
                      CASE p = "p1" -> [createdBy |-> "u1", members |-> <<[userId |-> "u2", permission |-> "write"]>>, v |-> 1]
                        [] p = "p2" -> NewProject("u1")
                        [] OTHER -> [createdBy |-> "u2", members |-> <<[userId |-> "u1", permission |-> "write"], [userId |-> "u3", permission |-> "read"]>>, v |-> 2]]
    /\ envFiles = {UploadedRow(1, "p1", "dev", 1, "u1", 1, 0), UploadedRow(2, "p1", "dev", 2, "u1", 2, 1),
                   UploadedRow(3, "p2", "prod", 1, "u1", 1, 0), UploadedRow(4, "p3", "dev", 1, "u1", 9, 1)}
    /\ envLogs = <<UploadEntry(UploadedRow(1, "p1", "dev", 1, "u1", 1, 0)), UploadEntry(UploadedRow(2, "p1", "dev", 2, "u1", 2, 1)),
                   UploadEntry(UploadedRow(3, "p2", "prod", 1, "u1", 1, 0)), UploadEntry(UploadedRow(4, "p3", "dev", 1, "u1", 9, 1))>>
    /\ secrets = {[id |-> 5, projectId |-> "p1", name |-> "a", createdBy |-> "u1", blob |-> encryptEnv(1, 0)],
                  [id |-> 6, projectId |-> "p3", name |-> "a", createdBy |-> "u1", blob |-> encryptEnv(2, 1)]}
    /\ nextId = 7
    /\ reqs = [i \in Slots |-> Idle]
    /\ started = 0
    /\ faults = 0
    /\ \E flags \in PanicFlags : settings = [u \in Users |-> IF u = "u1" THEN flags ELSE NoSettings]
    /\ cipher = NoCall

\* a stored Buffer with one bit changed behind the program's back (a disk
\* fault, a restore, a hand edit of the collection)
FlipBit(x, k) == IF (x \div (2 ^ k)) % 2 = 1 THEN x - 2 ^ k ELSE x + 2 ^ k

BlobFields == {"encryptedData", "iv", "authTag"}

Tamper(blob, field, k) ==
    CASE field = "encryptedData" -> [blob EXCEPT !.encryptedData.val = FlipBit(@, k)]
      [] field = "iv" -> [blob EXCEPT !.iv.val = FlipBit(@, k)]
      [] OTHER -> [blob EXCEPT !.authTag.val = FlipBit(@, k)]

\* the store of InitPanic in which version 2 of p1/dev, the latest of its
\* pair, has been changed in one of its three Buffers
InitTampered ==
    /\ projects = [p \in {"p1", "p2", "p3"} |->
                      CASE p = "p1" -> [createdBy |-> "u1", members |-> <<[userId |-> "u2", permission |-> "write"]>>, v |-> 1]
                        [] p = "p2" -> NewProject("u1")
                        [] OTHER -> [createdBy |-> "u2", members |-> <<[userId |-> "u1", permission |-> "write"], [userId |-> "u3", permission |-> "read"]>>, v |-> 2]]
    /\ \E field \in BlobFields :
          envFiles = {UploadedRow(1, "p1", "dev", 1, "u1", 1, 0),
                      [UploadedRow(2, "p1", "dev", 2, "u1", 2, 1) EXCEPT !.blob = Tamper(@, field, 0)],
                      UploadedRow(3, "p2", "prod", 1, "u1", 1, 0), UploadedRow(4, "p3", "dev", 1, "u1", 9, 1)}
    /\ envLogs = <<UploadEntry(UploadedRow(1, "p1", "dev", 1, "u1", 1, 0)), UploadEntry(UploadedRow(2, "p1", "dev", 2, "u1", 2, 1)),
                   UploadEntry(UploadedRow(3, "p2", "prod", 1, "u1", 1, 0)), UploadEntry(UploadedRow(4, "p3", "dev", 1, "u1", 9, 1))>>
    /\ secrets = {}
    /\ nextId = 5
    /\ reqs = [i \in Slots |-> Idle]
    /\ started = 0
    /\ faults = 0
    /\ \E flags \in PanicFlags : settings = [u \in Users |-> IF u = "u1" THEN flags ELSE NoSettings]
    /\ cipher = NoCall

----------------------------------------------------------------------------
(* The envelope cipher called on its own: a text is encrypted, the blob is *)
(* kept, changed in one bit or met with other parameter lengths, and       *)
(* handed to decryptEnv                                                    *)

Texts == 0..255

\* the bits of each Buffer of a blob
Bits(field) == IF field = "authTag" THEN 0..15 ELSE 0..7

\* nonce and tag lengths a GCM blob may come with
IvLengths == 11..17
TagLengths == 15..17

StoreUnchanged == UNCHANGED <<projects, envFiles, envLogs, nextId, reqs, started, faults, secrets, settings>>

CipherEncrypt ==
    /\ cipher.pc = "encrypt"
    /\ \E ivVal \in IVs :
          cipher' = [cipher EXCEPT !.pc = "stored", !.sealed = encryptEnv(cipher.data, ivVal), !.blob = encryptEnv(cipher.data, ivVal)]
    /\ StoreUnchanged

\* one bit of the stored blob changes
CipherBitFlip ==
    /\ cipher.pc = "stored"
    /\ cipher.blob = cipher.sealed
    /\ \E field \in BlobFields : \E k \in Bits(field) : cipher' = [cipher EXCEPT !.blob = Tamper(@, field, k)]
    /\ StoreUnchanged

\* the same text sealed under a nonce of n bytes with a tag of t bytes
CipherOtherLengths ==
    /\ cipher.pc = "stored"
    /\ cipher.blob = cipher.sealed
    /\ \E n \in IvLengths, t \in TagLengths :
          /\ <<n, t>> # <<IV_LENGTH, AUTH_TAG_LENGTH>>
          /\ cipher' = [cipher EXCEPT !.sealed.iv.len = n, !.sealed.authTag.len = t, !.blob.iv.len = n, !.blob.authTag.len = t]
    /\ StoreUnchanged

CipherDecrypt ==
    /\ cipher.pc = "stored"
    /\ cipher' = [cipher EXCEPT !.pc = "returned", !.out = decryptEnv(cipher.blob.encryptedData, cipher.blob.iv, cipher.blob.authTag)]
    /\ StoreUnchanged

\* a caller is about to encrypt some text; no request is running
InitCipher ==
    /\ projects = [p \in Projects |-> NewProject(IF p = "p1" THEN "u1" ELSE "u2")]
    /\ envFiles = {}
    /\ envLogs = <<>>
    /\ nextId = 1
    /\ reqs = [i \in Slots |-> Idle]
    /\ started = 0
    /\ faults = 0
    /\ secrets = {}
    /\ settings = [u \in Users |-> NoSettings]
    /\ \E data \in Texts : cipher = [NoCall EXCEPT !.pc = "encrypt", !.data = data]

----------------------------------------------------------------------------
(* Spec: uploads and deletes of the owner's project p1, interleaving.      *)

VersionRequests ==
    {UploadReq("u1", "p1", e, 1) : e \in {"dev"}}
    \cup {DeleteReq(u, "p1", id) : u \in {"u1", "u2"}, id \in 1..2}
    \cup {EditReq(u, "p1", id, 9) : u \in {"u1", "u2"}, id \in 1..2}

UploadStep(i) ==
    \/ UploadFindLatest(i)
    \/ UploadCreate(i)
    \/ UploadLog(i)
    \/ UploadRespond(i)

DownloadStep(i) ==
    \/ DownloadFind(i)
    \/ DownloadLog(i)

EditStep(i) ==
    \/ EditFind(i)
    \/ EditSave(i)
    \/ EditLog(i)
    \/ EditRespond(i)

DeleteStep(i) ==
    \/ DeleteFind(i)
    \/ DeleteLog(i)
    \/ DeleteRemove(i)

Next ==
    \/ Begin(VersionRequests, 2)
    \/ \E i \in Slots : ProjectAccessStep(i) \/ ProjectOwnershipStep(i) \/ UploadStep(i) \/ EditStep(i) \/ DeleteStep(i)

Spec == InitShared /\ [][Next]_vars

----------------------------------------------------------------------------
(* SeqSpec: one request at a time; uploads, downloads and edits, no delete *)

SeqRequests ==
    {UploadReq(u, "p1", e, c) : u \in {"u1", "u3"}, e \in {"dev", "prod"}, c \in {1, 2}}
    \cup {DownloadReq(u, "p1", "dev", v) : u \in {"u3"}, v \in 0..2}
    \cup {EditReq(u, "p1", id, 9) : u \in {"u1"}, id \in 1..2}

SeqNext ==
    \/ Begin(SeqRequests, 1)
    \/ ProjectAccessStep(1) \/ ProjectOwnershipStep(1) \/ UploadStep(1) \/ DownloadStep(1) \/ EditStep(1)

SeqSpec == InitShared /\ [][SeqNext]_vars

----------------------------------------------------------------------------
(* SeqVersionSpec: the requests of Spec, one at a time *)

SeqVersionNext ==
    \/ Begin(VersionRequests, 1)
    \/ ProjectAccessStep(1) \/ ProjectOwnershipStep(1) \/ UploadStep(1) \/ EditStep(1) \/ DeleteStep(1)

SeqVersionSpec == InitShared /\ [][SeqVersionNext]_vars

----------------------------------------------------------------------------
(* AccessSpec: the owner's member management and other users' requests,    *)
(* interleaving, from projects without collaborators; p9 is no project     *)

AccessRequests ==
    {AddMemberReq(u, "p1", "u2", perm) : u \in {"u1", "u2"}, perm \in Permissions}
    \cup {RemoveMemberReq(u, "p1", "u2") : u \in {"u1", "u2"}}
    \cup {UploadReq("u2", p, "dev", 1) : p \in {"p1", "p9"}}
    \cup {DownloadReq(u, "p1", "dev", 0) : u \in {"u2", "u3"}}

MemberStep(i) ==
    \/ AddMemberSave(i)
    \/ RemoveMemberSave(i)
    \/ MemberRespond(i)

AccessNext ==
    \/ Begin(AccessRequests, 2)
    \/ \E i \in Slots : ProjectAccessStep(i) \/ ProjectOwnershipStep(i) \/ MemberStep(i) \/ UploadStep(i) \/ DownloadStep(i)

AccessSpec == Init /\ [][AccessNext]_vars

----------------------------------------------------------------------------
(* AuditSpec: the four env-file operations on p1, interleaving             *)

AuditRequests ==
    {UploadReq("u1", "p1", "dev", 1), DownloadReq("u3", "p1", "dev", 0), EditReq("u1", "p1", 1, 9), DeleteReq("u1", "p1", 1)}

AuditNext ==
    \/ Begin(AuditRequests, 2)
    \/ \E i \in Slots : ProjectAccessStep(i) \/ ProjectOwnershipStep(i) \/ UploadStep(i) \/ DownloadStep(i) \/ EditStep(i) \/ DeleteStep(i)

AuditSpec == InitShared /\ [][AuditNext]_vars

----------------------------------------------------------------------------
(* ReadSpec: uploads of the owner and the two reading routes, interleaving *)

ReadRequests ==
    {UploadReq("u1", "p1", "dev", 1)}
    \cup {DownloadReq("u3", "p1", "dev", v) : v \in 0..1}
    \cup {ContentReq("u3", p, 1) : p \in {"p1", "p2"}}

ReadNext ==
    \/ Begin(ReadRequests, 2)
    \/ \E i \in Slots : ProjectAccessStep(i) \/ UploadStep(i) \/ DownloadStep(i) \/ ContentFind(i)

ReadSpec == InitShared /\ [][ReadNext]_vars

----------------------------------------------------------------------------
(* SecretSpec: the owner and the write collaborator of p1 create, rename,  *)
(* rewrite and delete named secrets, interleaving                          *)

SecretNames == {"a", "b"}

SecretRequests ==
    {CreateSecretReq(u, "p1", n, 1) : u \in {"u1", "u2"}, n \in SecretNames}
    \cup {UpdateSecretReq("u2", "p1", id, n, c) : id \in 1..2, n \in {"", "a"}, c \in {0, 2}}
    \cup {DeleteSecretReq("u1", "p1", 1), SecretContentReq("u3", "p1", 1)}

SecretNext ==
    \/ Begin(SecretRequests, 2)
    \/ \E i \in Slots : ProjectAccessStep(i) \/ SecretStep(i)

SecretSpec == InitShared /\ [][SecretNext]_vars

----------------------------------------------------------------------------
(* SecretAccessSpec: every user tries the secret routes of p1 and p2, one  *)
(* request at a time                                                       *)

SecretAccessRequests ==
    {CreateSecretReq(u, p, "a", 1) : u \in Users, p \in Projects}
    \cup {UpdateSecretReq(u, "p1", 1, "b", 2) : u \in Users}
    \cup {DeleteSecretReq(u, "p1", 1) : u \in Users}
    \cup {SecretContentReq(u, p, 1) : u \in Users, p \in Projects}

SecretAccessNext ==
    \/ Begin(SecretAccessRequests, 1)
    \/ ProjectAccessStep(1) \/ SecretStep(1)

SecretAccessSpec == InitShared /\ [][SecretAccessNext]_vars

----------------------------------------------------------------------------
(* PanicSeqSpec: the panic cascade of u1, of u3 (who has configured no      *)
(* panic button) and uploads of the write collaborator u2 to p1, one        *)
(* request at a time                                                       *)

PanicSeqRequests == {PanicReq("u1"), PanicReq("u3"), UploadReq("u2", "p1", "dev", 9)}

PanicSeqNext ==
    \/ Begin(PanicSeqRequests, 1)
    \/ ProjectAccessStep(1) \/ UploadStep(1) \/ PanicStep(1)

PanicSeqSpec == InitPanic /\ [][PanicSeqNext]_vars

----------------------------------------------------------------------------
(* LogSpec: every kind of request that writes to the store, one request at *)
(* a time: the env-file operations, the secret routes, the member routes    *)
(* and the panic cascade of u1                                             *)

LogRequests ==
    {PanicReq("u1"), UploadReq("u2", "p1", "dev", 9), DownloadReq("u2", "p1", "dev", 0),
     EditReq("u1", "p1", 2, 9), DeleteReq("u1", "p1", 1),
     CreateSecretReq("u2", "p1", "b", 1), UpdateSecretReq("u2", "p1", 5, "b", 2),
     DeleteSecretReq("u1", "p1", 5), SecretContentReq("u2", "p1", 5),
     AddMemberReq("u1", "p2", "u3", "read"), RemoveMemberReq("u1", "p1", "u2")}

LogNext ==
    \/ Begin(LogRequests, 1)
    \/ ProjectAccessStep(1) \/ ProjectOwnershipStep(1)
    \/ UploadStep(1) \/ DownloadStep(1) \/ EditStep(1) \/ DeleteStep(1)
    \/ SecretStep(1) \/ MemberStep(1) \/ PanicStep(1)

LogSpec == InitPanic /\ [][LogNext]_vars

----------------------------------------------------------------------------
(* TamperSpec: the panic cascade of u1 and downloads of p1/dev by u2 over   *)
(* a store with a corrupted row, one request at a time                      *)

TamperRequests == {PanicReq("u1")} \cup {DownloadReq("u2", "p1", "dev", v) : v \in 0..1}

TamperNext ==
    \/ Begin(TamperRequests, 1)
    \/ ProjectAccessStep(1) \/ DownloadStep(1) \/ PanicStep(1)

TamperSpec == InitTampered /\ [][TamperNext]_vars

----------------------------------------------------------------------------
(* CipherSpec: encryptEnv and decryptEnv called on their own                *)

CipherNext == CipherEncrypt \/ CipherBitFlip \/ CipherOtherLengths \/ CipherDecrypt

CipherSpec == InitCipher /\ [][CipherNext]_vars

----------------------------------------------------------------------------
(* MemberSpec: the owner of p1 adds and removes members, any user of the    *)
(* system among them, interleaving                                          *)

MemberRequests ==
    {AddMemberReq("u1", "p1", m, perm) : m \in Users, perm \in Permissions}
    \cup {RemoveMemberReq("u1", "p1", m) : m \in Users}

MemberNext ==
    \/ Begin(MemberRequests, 2)
    \/ \E i \in Slots : ProjectOwnershipStep(i) \/ MemberStep(i)

MemberSpec == Init /\ [][MemberNext]_vars

----------------------------------------------------------------------------
(* MetadataSpec: the routes that answer with record metadata, one request  *)
(* at a time                                                               *)

MetadataRequests ==
    {UploadReq("u1", "p1", e, 1) : e \in Environments}
    \cup {EditReq("u1", "p1", 1, 9)}
    \cup {VersionsReq("u3", "p1", e) : e \in {"", "dev"}}
    \cup {CreateSecretReq("u2", "p1", n, 1) : n \in SecretNames}
    \cup {UpdateSecretReq("u2", "p1", 1, "b", 2), ListSecretsReq("u3", "p1")}

MetadataNext ==
    \/ Begin(MetadataRequests, 1)
    \/ ProjectAccessStep(1) \/ ProjectOwnershipStep(1)
    \/ UploadStep(1) \/ EditStep(1) \/ VersionsList(1)
    \/ SecretCreateFind(1) \/ SecretInsert(1) \/ SecretRespond(1)
    \/ SecretUpdateFind(1) \/ SecretUpdateCheck(1) \/ SecretUpdateSave(1) \/ SecretsList(1)

MetadataSpec == InitShared /\ [][MetadataNext]_vars

----------------------------------------------------------------------------
(* CascadeSpec: the panic cascade of u1 with the export and the flush      *)
(* switched on, interleaved with an upload of the write collaborator u2    *)
(* to p1                                                                   *)

InitCascade ==
    /\ InitPanic
    /\ settings["u1"].downloadEnvs /\ settings["u1"].flushEnvs

CascadeRequests == {PanicReq("u1"), UploadReq("u2", "p1", "dev", 9)}

CascadeNext ==
    \/ Begin(CascadeRequests, 2)
    \/ \E i \in Slots : ProjectAccessStep(i) \/ UploadStep(i) \/ PanicStep(i)

CascadeSpec == InitCascade /\ [][CascadeNext]_vars

----------------------------------------------------------------------------
(* ScopeSpec: u1, who owns p1 and p2 and writes to p3, names records by    *)
(* id under p1 and p2: rows 1 (of p1) and 4 (of p3), secrets 5 (of p1) and  *)
(* 6 (of p3), one request at a time                                        *)

ScopeRequests ==
    {EditReq("u1", p, id, 9) : p \in {"p1", "p2"}, id \in {1, 4}}
    \cup {DeleteReq("u1", p, id) : p \in {"p1", "p2"}, id \in {1, 4}}
    \cup {ContentReq("u1", p, id) : p \in {"p1", "p2"}, id \in {1, 4}}
    \cup {SecretContentReq("u1", p, id) : p \in {"p1", "p2"}, id \in {5, 6}}
    \cup {UpdateSecretReq("u1", p, id, "b", 2) : p \in {"p1", "p2"}, id \in {5, 6}}
    \cup {DeleteSecretReq("u1", p, id) : p \in {"p1", "p2"}, id \in {5, 6}}

ScopeNext ==
    \/ Begin(ScopeRequests, 1)
    \/ ProjectAccessStep(1) \/ ProjectOwnershipStep(1)
    \/ ContentFind(1) \/ EditStep(1) \/ DeleteStep(1)
    \/ SecretContent(1) \/ SecretUpdateFind(1) \/ SecretUpdateCheck(1) \/ SecretUpdateSave(1)
    \/ SecretRespond(1) \/ SecretDelete(1)

ScopeSpec == InitPanic /\ [][ScopeNext]_vars

----------------------------------------------------------------------------
(* Properties *)

Finished(i, kind, status) == reqs[i].pc = "done" /\ reqs[i].kind = kind /\ reqs[i].status = status

\* the row holds exactly the encryption of content c under the row's own IV
Sealed(f, c) == f.blob = encryptEnv(c, f.blob.iv.val)

UploadEntries(projectId, environment) ==
    {k \in 1..Len(envLogs) : envLogs[k].action = "upload" /\ envLogs[k].projectId = projectId /\ envLogs[k].environment = environment}

\* C2: with one upload at a time and no delete, the k-th upload to a
\* (projectId, environment) pair returns version k: the answered version is
\* the number of rows the pair then holds, and the stored versions are 1..k.
C2_KthUploadReturnsK ==
    Finished(1, "upload", 201) =>
        LET rows == RowsOf(reqs[1].projectId, reqs[1].environment)
        IN  /\ reqs[1].body.version = Cardinality(rows)
            /\ {f.version : f \in rows} = 1..Cardinality(rows)

C2_Witness ==
    /\ Finished(1, "upload", 201)
    /\ reqs[1].body.version = 3
    /\ reqs[1].environment = "dev"
    /\ Cardinality(RowsOf("p1", "prod")) = 0

\* C3: the store never holds two rows with the same (projectId, environment,
\* version), also when two uploads to the pair interleave.
C3_NoDuplicateVersion ==
    \A f, g \in envFiles :
        (f.projectId = g.projectId /\ f.environment = g.environment /\ f.version = g.version) => f = g

\* C4: over uploads and deletes of one pair, one at a time, every upload gets
\* a version strictly greater than every version an earlier upload of the
\* pair got, also after the highest-versioned row was deleted.
C4_VersionNeverReused ==
    \A f \in envFiles :
        \A k \in UploadEntries(f.projectId, f.environment) :
            envLogs[k].envFileId # f.id => envLogs[k].version # f.version

\* C5: a download without a version answers the plaintext of the pair's
\* highest-versioned row, a download of version v the plaintext last written
\* (uploaded or edited in place) as version v, and 404 exactly when no row
\* matches; what upload and edit store is the encryption of their content.
C5_Selected(projectId, environment, version) ==
    {f \in envFiles :
        /\ f.projectId = projectId /\ f.environment = environment
        /\ IF version = 0
           THEN \A g \in envFiles : (g.projectId = projectId /\ g.environment = environment) => g.version <= f.version
           ELSE f.version = version}

C5_DownloadReturnsVersion ==
    /\ (reqs[1].pc = "done" /\ reqs[1].kind = "download" /\ reqs[1].status # 403) =>
          LET sel == C5_Selected(reqs[1].projectId, reqs[1].environment, reqs[1].version)
          IN  /\ (sel = {}) <=> (reqs[1].status = 404)
              /\ (sel # {}) => /\ reqs[1].status = 200
                               /\ \E f \in sel : Sealed(f, reqs[1].body.content)
    /\ Finished(1, "upload", 201) =>
          \E f \in envFiles : f.id = reqs[1].body.id /\ f.version = reqs[1].body.version /\ Sealed(f, reqs[1].content)
    /\ Finished(1, "edit", 200) =>
          \E f \in envFiles : f.id = reqs[1].envFileId /\ Sealed(f, reqs[1].content)

\* "A=1" then "A=2" uploaded: the download of version 1 answers "A=1" while
\* the latest is "A=2"
C5_Witness ==
    /\ Finished(1, "download", 200)
    /\ reqs[1].version = 1
    /\ reqs[1].body.content = 1
    /\ \E f \in envFiles : f.environment = "dev" /\ f.version = 2 /\ Sealed(f, 2)

\* C6: editInPlace replaces only the blob of the row it targets: the row's
\* version, environment and projectId stay, no row is added or removed, the
\* list of versions is the same, every other row is unchanged, and the row
\* then holds the new plaintext, which a later download of it returns.
C6_OnlyBlobReplaced ==
    \/ envFiles' = envFiles
    \/ \E f \in envFiles : \E g \in envFiles' :
         /\ f.id = reqs[1].envFileId
         /\ f.projectId = reqs[1].projectId
         /\ envFiles' = (envFiles \ {f}) \cup {g}
         /\ [g EXCEPT !.blob = f.blob] = f
         /\ Sealed(g, reqs[1].content)
         /\ \A e \in Environments : listVersions(f.projectId, e)' = listVersions(f.projectId, e)

C6_EditFrame ==
    /\ [][(reqs[1].kind = "edit" /\ reqs[1].pc \notin {"idle", "done"}) => C6_OnlyBlobReplaced]_vars
    /\ [](Finished(1, "edit", 200) => \E f \in envFiles : f.id = reqs[1].envFileId /\ Sealed(f, reqs[1].content))
    /\ []((Finished(1, "download", 200) /\ reqs[1].version # 0) => \E f \in RowsOf(reqs[1].projectId, reqs[1].environment) : f.version = reqs[1].version /\ Sealed(f, reqs[1].body.content))

\* version 1 was edited to "A=9" and the download of version 1 answers "A=9"
C6_Witness ==
    /\ Finished(1, "download", 200)
    /\ reqs[1].version = 1
    /\ reqs[1].body.content = 9
    /\ \E k \in 1..Len(envLogs) : envLogs[k].action = "edit" /\ envLogs[k].version = 1

IsOwnerOf(u, p) == p \in DOMAIN projects /\ projects[p].createdBy = u

IsCollaborator(u, p) == p \in DOMAIN projects /\ ~IsOwnerOf(u, p) /\ \E k \in 1..Len(projects[p].members) : projects[p].members[k].userId = u

\* C7: editInPlace and delete of an environment file are for the project's
\* owner alone: a collaborator, also a write collaborator, is answered 403
\* by the middleware, that step leaves rows and audit log as they are, the
\* handler never runs for them, and whenever a row is changed or removed the
\* step is taken by a request of the owner of the row's project.
C7_Refused(i) ==
    (reqs[i].kind \in {"edit", "delete"} /\ IsCollaborator(reqs[i].user, reqs[i].projectId) /\ reqs[i].pc = "auth" /\ reqs'[i] # reqs[i])
        => /\ reqs'[i].pc = "done" /\ reqs'[i].status = 403
           /\ envFiles' = envFiles
           /\ envLogs' = envLogs

C7_ByOwner ==
    \A f \in envFiles : f \notin envFiles' =>
        \E i \in Slots : /\ reqs[i].kind \in {"edit", "delete"}
                         /\ reqs[i].pc \in {"save", "remove"}
                         /\ reqs'[i].pc # reqs[i].pc
                         /\ IsOwnerOf(reqs[i].user, f.projectId)

C7_OwnerOnly ==
    /\ [][(\A i \in Slots : C7_Refused(i)) /\ C7_ByOwner]_vars
    /\ [](\A i \in Slots : (reqs[i].kind \in {"edit", "delete"} /\ IsCollaborator(reqs[i].user, reqs[i].projectId)) => reqs[i].pc \in {"auth", "done"})

\* the write collaborator u2 was refused the delete of a row that exists
C7_Witness ==
    \E i \in Slots :
        /\ Finished(i, "delete", 403)
        /\ reqs[i].user = "u2"
        /\ RowByIdIn(reqs[i].envFileId, "p1") # {}
        /\ Len(envLogs) > 0

IsReadMember(u, p) ==
    /\ IsCollaborator(u, p)
    /\ \A k \in 1..Len(projects[p].members) : projects[p].members[k].userId = u => projects[p].members[k].permission = "read"

\* C8: a collaborator whose member entry is read is answered 403 by upload,
\* and the refused upload adds no row and no audit entry; the same
\* collaborator's download of an existing version is answered 200 with the
\* plaintext of a matching row.
C8_UploadRefused ==
    (reqs[1].kind = "upload" /\ IsReadMember(reqs[1].user, reqs[1].projectId) /\ reqs[1].pc = "auth" /\ reqs'[1] # reqs[1])
        => /\ reqs'[1].pc = "done" /\ reqs'[1].status = 403
           /\ envFiles' = envFiles
           /\ envLogs' = envLogs

C8_DownloadServed ==
    (reqs[1].pc = "done" /\ reqs[1].kind = "download" /\ IsReadMember(reqs[1].user, reqs[1].projectId)
     /\ C5_Selected(reqs[1].projectId, reqs[1].environment, reqs[1].version) # {})
        => /\ reqs[1].status = 200
           /\ \E f \in C5_Selected(reqs[1].projectId, reqs[1].environment, reqs[1].version) : Sealed(f, reqs[1].body.content)

C8_ReadMember ==
    /\ [][C8_UploadRefused]_vars
    /\ []C8_DownloadServed
    /\ []((reqs[1].kind = "upload" /\ IsReadMember(reqs[1].user, reqs[1].projectId)) => reqs[1].pc \in {"auth", "done"})

\* u3, who downloaded earlier, was refused an upload
C8_Witness ==
    /\ Finished(1, "upload", 403)
    /\ reqs[1].user = "u3"
    /\ \E k \in 1..Len(envLogs) : envLogs[k].action = "download" /\ envLogs[k].performedBy = "u3"

\* C9: add-member and remove-member change a project's members only for the
\* project's owner: any other caller, also a write collaborator, is answered
\* 403 with members unchanged, and every change of members is made by a
\* request of the owner of that project.
C9_Refused(i) ==
    (reqs[i].kind \in {"addMember", "removeMember"} /\ reqs[i].projectId \in DOMAIN projects
     /\ ~IsOwnerOf(reqs[i].user, reqs[i].projectId) /\ reqs[i].pc = "auth" /\ reqs'[i] # reqs[i])
        => /\ reqs'[i].pc = "done" /\ reqs'[i].status = 403
           /\ projects' = projects

C9_ByOwner ==
    \A p \in DOMAIN projects : projects'[p] # projects[p] =>
        \E i \in Slots : /\ reqs[i].kind \in {"addMember", "removeMember"}
                         /\ reqs[i].projectId = p
                         /\ reqs[i].pc = "save"
                         /\ reqs'[i].pc # "save"
                         /\ reqs[i].user = projects[p].createdBy

C9_MembersOwnerOnly ==
    /\ [][(\A i \in Slots : C9_Refused(i)) /\ C9_ByOwner]_vars
    /\ [](\A i \in Slots : (reqs[i].kind \in {"addMember", "removeMember"} /\ ~IsOwnerOf(reqs[i].user, reqs[i].projectId)) => reqs[i].pc \in {"auth", "done"})

\* u2, a write collaborator of p1, was refused a member change
C9_Witness ==
    \E i \in Slots :
        /\ Finished(i, "addMember", 403)
        /\ reqs[i].user = "u2"
        /\ \E k \in 1..Len(projects["p1"].members) : projects["p1"].members[k] = [userId |-> "u2", permission |-> "write"]

HasEntry(u, p, perm) == \E k \in 1..Len(projects[p].members) : projects[p].members[k] = [userId |-> u, permission |-> perm]

C1_Allowed(u, p, level) ==
    \/ IsOwnerOf(u, p)
    \/ HasEntry(u, p, "write")
    \/ (HasEntry(u, p, "read") /\ level = "read")

C1_Decision(i) ==
    (reqs[i].kind \in AccessRoutes /\ reqs[i].pc = "auth" /\ reqs'[i] # reqs[i]) =>
        IF reqs[i].projectId \notin DOMAIN projects
        THEN reqs'[i].pc = "done" /\ reqs'[i].status = 404
        ELSE IF C1_Allowed(reqs[i].user, reqs[i].projectId, RequiredPermission(reqs[i].kind))
        THEN reqs'[i].pc = FirstStep(reqs[i].kind)
        ELSE reqs'[i].pc = "done" /\ reqs'[i].status = 403

\* C1: requireProjectAccess(L) lets the request of user U on project P pass
\* exactly when U is P's owner, or U has a write member entry in P, or U has
\* a read member entry in P and L = read; every other request on an existing
\* project is answered 403, and a missing project 404.
C1_PermissionMatrix == [][\A i \in Slots : C1_Decision(i)]_vars

\* the same matrix in the states where members holds one entry per user
OneEntryPerUser(p) == \A j, k \in 1..Len(projects[p].members) : projects[p].members[j].userId = projects[p].members[k].userId => j = k

C1_MatrixOnDistinctMembers ==
    [][\A i \in Slots : (reqs[i].projectId \in DOMAIN projects /\ OneEntryPerUser(reqs[i].projectId)) => C1_Decision(i)]_vars

DeleteEntry(row, u) ==
    [projectId |-> row.projectId, envFileId |-> row.id, environment |-> row.environment, version |-> row.version,
     action |-> "delete", performedBy |-> u, metadata |-> [NoMetadata EXCEPT !.oldVersion = row.version]]

Gone(f) == \A g \in envFiles' : g.id # f.id

\* C10: whenever delete removes a row, an action=delete audit entry naming
\* the row's id and version has been appended before.
C10_EntryBeforeRemoval ==
    [][\A f \in envFiles : Gone(f) =>
          \E k \in 1..Len(envLogs) : envLogs[k].action = "delete" /\ envLogs[k].envFileId = f.id /\ envLogs[k].version = f.version]_vars

\* C10 as amended: a row is removed only by a delete request that has gone
\* through its audit step; that step appends the action=delete entry naming
\* the row's id and version, or appends nothing when the audit write itself
\* failed; the removal step and its failure leave the log as it is, and no
\* step takes an entry out of the log.
C10_RemovedAfterLogStep ==
    \A f \in envFiles : Gone(f) =>
        \E i \in Slots : reqs[i].kind = "delete" /\ reqs[i].pc = "remove" /\ reqs[i].envFileId = f.id /\ reqs'[i].pc = "done"

C10_LogStep(i) ==
    /\ (reqs'[i].pc = "remove" /\ reqs[i].pc # "remove") => (reqs[i].kind = "delete" /\ reqs[i].pc = "log")
    /\ (reqs[i].kind = "delete" /\ reqs[i].pc = "log" /\ reqs'[i] # reqs[i]) =>
          /\ reqs'[i].pc = "remove"
          /\ reqs[i].local.row.id = reqs[i].envFileId
          /\ \/ envLogs' = Append(envLogs, DeleteEntry(reqs[i].local.row, reqs[i].user))
             \/ envLogs' = envLogs /\ faults' = faults + 1
    /\ (reqs[i].pc = "remove" /\ reqs'[i] # reqs[i]) => envLogs' = envLogs

C10_AppendOnly == Len(envLogs') >= Len(envLogs) /\ SubSeq(envLogs', 1, Len(envLogs)) = envLogs

C10_LogThenRemove == [][C10_RemovedAfterLogStep /\ (\A i \in Slots : C10_LogStep(i)) /\ C10_AppendOnly]_vars

\* the removal failed after the audit step: the entry is there, the row too
C10_Witness ==
    \E i \in Slots :
        /\ Finished(i, "delete", 500)
        /\ \E f \in RowById(reqs[i].envFileId) : \E k \in 1..Len(envLogs) : envLogs[k] = DeleteEntry(f, reqs[i].user)

\* what the request in slot i goes on to after its audit step
C11_AfterAudit(i) ==
    IF reqs[i].kind = "download"
    THEN [reqs EXCEPT ![i].pc = "done", ![i].status = 200, ![i].body = [NoBody EXCEPT !.content = reqs[i].local.data],
                      ![i].project = NoProject, ![i].local = NoLocal]
    ELSE [reqs EXCEPT ![i].pc = IF reqs[i].kind = "delete" THEN "remove" ELSE "respond"]

C11_AuditStep(i) ==
    (reqs[i].pc = "log" /\ reqs'[i] # reqs[i]) =>
        /\ reqs[i].kind \in {"upload", "download", "edit", "delete"}
        /\ reqs' = C11_AfterAudit(i)
        /\ envFiles' = envFiles
        /\ projects' = projects
        /\ \/ Len(envLogs') = Len(envLogs) + 1 /\ faults' = faults
           \/ envLogs' = envLogs /\ faults' = faults + 1

\* the steps after the audit step do not depend on the log
C11_Completion(i) ==
    /\ (reqs[i].pc = "respond" /\ reqs[i].kind \in {"upload", "edit"} /\ reqs'[i] # reqs[i]) =>
          /\ reqs'[i].pc = "done"
          /\ reqs'[i].status = IF reqs[i].kind = "upload" THEN 201 ELSE 200
          /\ reqs'[i].body = PopulatedBody(reqs[i].local.row.id)
          /\ envFiles' = envFiles
    /\ (reqs[i].pc = "remove" /\ reqs'[i] # reqs[i] /\ faults' = faults) =>
          /\ reqs'[i].pc = "done" /\ reqs'[i].status = 200
          /\ envFiles' = envFiles \ RowById(reqs[i].envFileId)

\* C11: when the audit write of upload, download, editInPlace or delete
\* fails, the request goes on exactly as when it succeeds: the audit step
\* changes no row, leads to the same continuation and the same answer
\* whether or not an entry was appended, and delete still removes the row.
C11_AuditFailureSwallowed == [][\A i \in Slots : C11_AuditStep(i) /\ C11_Completion(i)]_vars

\* a delete was answered 200 and its row is gone although the audit write
\* failed: the log holds the row's upload entry and no delete entry
C11_Witness ==
    \E i \in Slots :
        /\ Finished(i, "delete", 200)
        /\ RowById(reqs[i].envFileId) = {}
        /\ \E k \in 1..Len(envLogs) : envLogs[k].action = "upload" /\ envLogs[k].envFileId = reqs[i].envFileId
        /\ \A k \in 1..Len(envLogs) : envLogs[k].action # "delete"
        /\ faults = 1

\* the audit entry the operation in slot i is to append at its audit step
C13_Entry(i) ==
    LET row == reqs[i].local.row
        kind == reqs[i].kind
    IN  [projectId |-> reqs[i].projectId, envFileId |-> row.id, version |-> row.version,
         environment |-> IF kind \in {"upload", "download"} THEN reqs[i].environment ELSE row.environment,
         action |-> kind, performedBy |-> reqs[i].user,
         metadata |-> CASE kind = "upload" -> [NoMetadata EXCEPT !.newVersion = row.version]
                        [] kind = "download" -> [NoMetadata EXCEPT !.fileName = ".env"]
                        [] kind = "edit" -> [NoMetadata EXCEPT !.oldVersion = row.version, !.newVersion = row.version]
                        [] OTHER -> [NoMetadata EXCEPT !.oldVersion = row.version]]

\* the entry names the row the operation worked on, as it is stored
C13_EntryOfRow(i) ==
    LET row == reqs[i].local.row
    IN  /\ row.projectId = reqs[i].projectId
        /\ row.environment = C13_Entry(i).environment
        /\ \A f \in RowById(row.id) : f.version = row.version /\ f.environment = row.environment

\* a request is answered as successful only after its audit step, and only
\* the audit step of a request writes to the log
C13_ThroughAudit(i) ==
    /\ (reqs'[i].pc \in {"respond", "remove"} /\ reqs[i].pc # reqs'[i].pc) => reqs[i].pc = "log"
    /\ (reqs'[i].pc = "done" /\ reqs[i].pc # "done" /\ reqs'[i].status \in {200, 201}) =>
          reqs[i].pc = CASE reqs[i].kind = "download" -> "log" [] reqs[i].kind = "delete" -> "remove" [] OTHER -> "respond"
    /\ (reqs[i].pc # "log" /\ reqs'[i] # reqs[i]) => envLogs' = envLogs

\* C13: each successful upload, download, editInPlace and delete appends
\* exactly one audit entry, with the acting user, the action, the row's
\* environment and version, metadata.newVersion = the assigned version for
\* upload and metadata.oldVersion = metadata.newVersion = the row's version
\* for editInPlace.
C13_OneEntryPerOperation ==
    [][\A i \in Slots : /\ C13_ThroughAudit(i)
                         /\ (reqs[i].pc = "log" /\ reqs'[i] # reqs[i]) =>
                               (C13_EntryOfRow(i) /\ envLogs' = Append(envLogs, C13_Entry(i)))]_vars

\* C13 as amended: the audit step appends exactly that one entry, or none
\* when the audit write itself failed.
C13_OneEntryUnlessAuditFails ==
    [][\A i \in Slots : /\ C13_ThroughAudit(i)
                         /\ (reqs[i].pc = "log" /\ reqs'[i] # reqs[i]) =>
                               /\ C13_EntryOfRow(i)
                               /\ \/ envLogs' = Append(envLogs, C13_Entry(i)) /\ faults' = faults
                                  \/ envLogs' = envLogs /\ faults' = faults + 1]_vars

\* an edit of version 1 was answered 200 and the log holds its one entry
C13_Witness ==
    \E i \in Slots :
        /\ Finished(i, "edit", 200)
        /\ Cardinality({k \in 1..Len(envLogs) : envLogs[k].action = "edit"}) = 1
        /\ \E k \in 1..Len(envLogs) :
              /\ envLogs[k].action = "edit" /\ envLogs[k].performedBy = "u1" /\ envLogs[k].version = 1
              /\ envLogs[k].metadata = [NoMetadata EXCEPT !.oldVersion = 1, !.newVersion = 1]
        /\ \E f \in envFiles : f.id = 1 /\ f.version = 1 /\ Sealed(f, 9)

\* C14: whenever a request has handed env-file plaintext to its caller, the
\* log holds an action=download entry by that caller; download is the only
\* route that answers with plaintext.
C14_PlaintextOnlyWithDownloadEntry ==
    \A i \in Slots :
        (reqs[i].pc = "done" /\ reqs[i].body.content # 0) =>
            /\ reqs[i].kind = "download"
            /\ \E k \in 1..Len(envLogs) :
                  /\ envLogs[k].action = "download"
                  /\ envLogs[k].performedBy = reqs[i].user
                  /\ envLogs[k].projectId = reqs[i].projectId

\* C15: at most one named secret exists per (projectId, name), also when
\* creates and renames for the same name interleave; a write the unique
\* index refuses is answered as a conflict (400) and adds or changes nothing.
C15_UniqueName ==
    \A x, y \in secrets : (x.projectId = y.projectId /\ x.name = y.name) => x = y

C15_CreateConflict(i) ==
    (reqs[i].kind = "createSecret" /\ reqs[i].pc \in {"find", "insert"} /\ reqs'[i] # reqs[i]
     /\ SecretsNamed(reqs[i].projectId, reqs[i].name) # {})
        => /\ reqs'[i].pc = "done" /\ reqs'[i].status = 400
           /\ secrets' = secrets

C15_OneSecretPerName == []C15_UniqueName /\ [][\A i \in Slots : C15_CreateConflict(i)]_vars

\* two creates of the name "a" interleaved: both passed the lookup, the
\* second insert was refused
C15_Witness ==
    /\ Finished(1, "createSecret", 201) /\ Finished(2, "createSecret", 400)
    /\ reqs[1].name = "a" /\ reqs[2].name = "a"
    /\ Cardinality(SecretsNamed("p1", "a")) = 1
    /\ Cardinality(secrets) = 1
    /\ started = 2

\* the update in slot i is about to run its name check or its save, and the
\* new name belongs to a different secret of the project
C16_Collides(i) ==
    /\ reqs[i].kind = "updateSecret"
    /\ NameModified(reqs[i].name, reqs[i].local.secret)
    /\ DuplicateKey(reqs[i].secretId, reqs[i].projectId, reqs[i].name)
    /\ \/ reqs[i].pc = "check"
       \/ reqs[i].pc = "save" /\ SecretByIdIn(reqs[i].secretId, reqs[i].projectId) # {}

C16_Refused(i) ==
    (C16_Collides(i) /\ reqs'[i] # reqs[i]) =>
        /\ reqs'[i].pc = "done" /\ reqs'[i].status = 400
        /\ secrets' = secrets

\* the name the secret already has is not looked up and never refused
C16_SameName(i) ==
    /\ (reqs[i].kind = "updateSecret" /\ reqs[i].pc = "find" /\ reqs'[i] # reqs[i]
        /\ \E x \in SecretByIdIn(reqs[i].secretId, reqs[i].projectId) : x.name = reqs[i].name)
          => reqs'[i].pc = "save"
    /\ (reqs[i].kind = "updateSecret" /\ reqs[i].pc = "save" /\ reqs'[i] # reqs[i]
        /\ ~NameModified(reqs[i].name, reqs[i].local.secret))
          => reqs'[i].status # 400

\* C16: an update whose new name is used by a different secret of the
\* project is answered as a conflict (400) and changes no secret, neither
\* name nor blob, also when the call carries new content; the name the
\* secret already has is no conflict.
C16_RenameConflict == [][\A i \in Slots : C16_Refused(i) /\ C16_SameName(i)]_vars

\* "a" and "b" exist; the update of "b" to the name "a" with new content was
\* refused and both still hold what they were created with
C16_Witness ==
    \E i \in Slots :
        /\ Finished(i, "updateSecret", 400)
        /\ reqs[i].name = "a" /\ reqs[i].content = 2
        /\ \E x \in SecretsNamed("p1", "a") : x.id # reqs[i].secretId /\ Sealed(x, 1)
        /\ \E y \in SecretsNamed("p1", "b") : y.id = reqs[i].secretId /\ Sealed(y, 1)

IsWriteMember(u, p) ==
    /\ IsCollaborator(u, p)
    /\ \A k \in 1..Len(projects[p].members) : projects[p].members[k].userId = u => projects[p].members[k].permission = "write"

C17_MayWrite(u, p) == IsOwnerOf(u, p) \/ IsWriteMember(u, p)

C17_MayRead(u, p) == IsOwnerOf(u, p) \/ IsWriteMember(u, p) \/ IsReadMember(u, p)

\* the middleware's answer to a secret request on an existing project
C17_Decision ==
    (reqs[1].kind \in SecretRoutes /\ reqs[1].pc = "auth" /\ reqs'[1] # reqs[1] /\ reqs[1].projectId \in DOMAIN projects) =>
        IF (reqs[1].kind = "secretContent" /\ C17_MayRead(reqs[1].user, reqs[1].projectId))
           \/ (reqs[1].kind # "secretContent" /\ C17_MayWrite(reqs[1].user, reqs[1].projectId))
        THEN reqs'[1].pc = "find" /\ secrets' = secrets
        ELSE reqs'[1].pc = "done" /\ reqs'[1].status = 403 /\ secrets' = secrets

\* secrets change only in a mutation by a principal with write access
C17_ByWriter ==
    secrets' # secrets =>
        /\ reqs[1].kind \in {"createSecret", "updateSecret", "deleteSecret"}
        /\ C17_MayWrite(reqs[1].user, reqs[1].projectId)
        /\ \A x \in (secrets \ secrets') \cup (secrets' \ secrets) : x.projectId = reqs[1].projectId

\* a handler runs only for a principal the route admits, 403 is answered
\* only to one it does not admit, and the content served is the plaintext of
\* the stored secret
C17_Served ==
    /\ (reqs[1].kind \in SecretRoutes /\ reqs[1].pc \notin {"idle", "auth", "done"}) =>
          IF reqs[1].kind = "secretContent" THEN C17_MayRead(reqs[1].user, reqs[1].projectId)
          ELSE C17_MayWrite(reqs[1].user, reqs[1].projectId)
    /\ (reqs[1].kind \in SecretRoutes /\ reqs[1].pc = "done" /\ reqs[1].status = 403) =>
          IF reqs[1].kind = "secretContent" THEN ~C17_MayRead(reqs[1].user, reqs[1].projectId)
          ELSE ~C17_MayWrite(reqs[1].user, reqs[1].projectId)
    /\ (Finished(1, "secretContent", 200)) =>
          \E x \in SecretByIdIn(reqs[1].secretId, reqs[1].projectId) : Sealed(x, reqs[1].body.content)

\* C17: create, update and delete of a named secret pass for the owner and
\* for a write collaborator and are answered 403, with the secrets unchanged,
\* for a read collaborator and a non-member; the plaintext of a secret is
\* served to the owner and to every collaborator.
C17_SecretAccess == [][C17_Decision /\ C17_ByWriter]_vars /\ []C17_Served

\* the write collaborator u2 created the secret, the read collaborator u3
\* was then refused its deletion
C17_Witness ==
    /\ Finished(1, "deleteSecret", 403)
    /\ reqs[1].user = "u3"
    /\ \E x \in SecretByIdIn(1, "p1") : x.createdBy = "u2"

C18_NotOwned(u) == {p \in DOMAIN projects : projects[p].createdBy # u}

\* the export blocks the panic request in slot i holds after the step
C18_Blocks(i) == IF reqs'[i].pc = "done" THEN reqs'[i].body.results.downloadContent ELSE reqs'[i].local.blocks

C18_Untouched(i) ==
    (reqs[i].kind = "panic" /\ reqs'[i] # reqs[i]) =>
        /\ \A p \in C18_NotOwned(reqs[i].user) :
              /\ projects'[p] = projects[p]
              /\ {f \in envFiles' : f.projectId = p} = {f \in envFiles : f.projectId = p}
              /\ {x \in secrets' : x.projectId = p} = {x \in secrets : x.projectId = p}
        /\ \A k \in 1..Len(C18_Blocks(i)) : projects[C18_Blocks(i)[k].project].createdBy = reqs[i].user

\* C18: every step of the panic cascade of user U leaves the rows, the
\* named secrets and the members of every project U does not own as they
\* are, whatever flags are set, and every block of the export is a block of
\* a project U owns.
C18_OnlyOwnedProjects == [][\A i \in Slots : C18_Untouched(i)]_vars

\* u1's cascade ran all three sub-actions: p1 and p2 are flushed and p1's
\* members revoked, p3 (u1 a write collaborator) has its row, secret and
\* members
C18_Witness ==
    \E i \in Slots :
        /\ Finished(i, "panic", 200) /\ reqs[i].user = "u1"
        /\ reqs[i].body.results.downloadEnvs /\ reqs[i].body.results.flushEnvs /\ reqs[i].body.results.revokeCollaborators
        /\ RowsOfProject("p1") = {} /\ RowsOfProject("p2") = {} /\ projects["p1"].members = <<>>
        /\ RowsOfProject("p3") = {UploadedRow(4, "p3", "dev", 1, "u1", 9, 1)}
        /\ Len(projects["p3"].members) = 2
        /\ \E x \in secrets : x.projectId = "p3"

C19_OwnedIds(u) == {p \in DOMAIN projects : projects[p].createdBy = u}

\* every environment of project p that holds rows has a block with the
\* number and the plaintext of its latest version
C19_Covered(blocks, p) ==
    \A f \in RowsOfProject(p) :
        \E k \in 1..Len(blocks) : \E g \in LatestRows(p, f.environment) :
            /\ blocks[k].project = p /\ blocks[k].environment = f.environment
            /\ blocks[k].version = g.version /\ Sealed(g, blocks[k].content)

\* the owned projects the flush step has not reached yet
C19_NotYetFlushed(i) ==
    LET local == reqs[i].local
    IN  CASE reqs[i].pc = "count" -> {local.owned[k].id : k \in 1..Len(local.owned)}
          [] reqs[i].pc = "flush" -> {local.owned[k].id : k \in local.k..Len(local.owned)}
          [] OTHER -> {}

C19_BackupAndFlush(i) == reqs[i].kind = "panic" /\ settings[reqs[i].user].downloadEnvs /\ settings[reqs[i].user].flushEnvs

C20_Pairs(u) == {<<f.projectId, f.environment>> : f \in {g \in envFiles : g.projectId \in C19_OwnedIds(u)}}

\* the results the panic request in slot i holds after the step
C20_Results(i) == IF reqs'[i].pc = "done" THEN reqs'[i].body.results ELSE reqs'[i].local.results

\* blocks holds one block per pair, with the highest version of the pair
\* and the plaintext of the row that has it
C20_OneBlockPerPair(blocks, u) ==
    /\ Len(blocks) = Cardinality(C20_Pairs(u))
    /\ \A pair \in C20_Pairs(u) :
          \E k \in 1..Len(blocks) :
              /\ blocks[k].project = pair[1] /\ blocks[k].environment = pair[2]
              /\ \A f \in RowsOf(pair[1], pair[2]) : f.version <= blocks[k].version
              /\ \E f \in RowsOf(pair[1], pair[2]) : f.version = blocks[k].version /\ Sealed(f, blocks[k].content)

C12_Kept == Len(envLogs') >= Len(envLogs) /\ \A k \in 1..Len(envLogs) : envLogs'[k] = envLogs[k]

\* C12: no step of an upload, download, edit, delete, secret mutation,
\* member change or panic cascade (flush and revoke included) updates or
\* removes an audit entry: each step leaves the log as it is or appends to
\* it, so the entries of rows that were edited, deleted or flushed later
\* stay where they were.
C12_AuditLogAppendOnly == [][C12_Kept /\ Len(envLogs') <= Len(envLogs) + 1]_vars

\* the cascade of u1 has flushed and revoked: no row of p1 and p2 and no
\* collaborator of p1 is left, and the four entries of the uploads are
\* still the first four entries of the log
C12_Witness ==
    \E i \in Slots :
        /\ Finished(i, "panic", 200)
        /\ reqs[i].body.results.flushEnvs /\ reqs[i].body.results.revokeCollaborators
        /\ RowsOfProject("p1") = {} /\ RowsOfProject("p2") = {}
        /\ projects["p1"].members = <<>>
        /\ Len(envLogs) >= 4
        /\ \A k \in 1..3 : envLogs[k].action = "upload" /\ envLogs[k].projectId \in {"p1", "p2"} /\ envLogs[k].envFileId = k

\* the pairs of u's projects whose latest version does not decrypt
C21_Undecryptable(u) ==
    {pair \in C20_Pairs(u) :
        LET envFile == latestByEnv(RowsOfProject(pair[1]), pair[2])
        IN  ~decryptEnv(envFile.blob.encryptedData, envFile.blob.iv, envFile.blob.authTag).ok}

\* the export step of slot i ends in this step without a store error
C21_ExportEnds(i) ==
    /\ reqs[i].kind = "panic" /\ reqs[i].pc = "export" /\ reqs'[i].pc # "export"
    /\ faults' = faults

\* C21: when the latest version of a pair does not decrypt during the
\* export step, the other pairs are exported, the cascade goes on, and the
\* result does not report the export as a complete success: it records the
\* failure.
C21_DecryptFailureSurfaced ==
    [][\A i \in Slots :
         (C21_ExportEnds(i) /\ C21_Undecryptable(reqs[i].user) # {}) =>
             LET results == C20_Results(i)
             IN  /\ \A pair \in C20_Pairs(reqs[i].user) \ C21_Undecryptable(reqs[i].user) :
                       \E k \in 1..Len(results.downloadContent) :
                           results.downloadContent[k].project = pair[1] /\ results.downloadContent[k].environment = pair[2]
                 /\ reqs'[i].pc \in {"count", "flush", "revoke", "done"}
                 /\ (results.downloadError \/ ~results.downloadEnvs)]_vars

\* a step of the flush sub-action of slot i
C22_FlushStep(i) == reqs[i].kind = "panic" /\ reqs[i].pc \in {"count", "flush"} /\ reqs'[i] # reqs[i]

\* the flush sub-action writes to the EnvFile collection only
C22_Frame == \A i \in Slots : C22_FlushStep(i) => secrets' = secrets /\ envLogs' = envLogs /\ projects' = projects

\* the cascade of slot i answers in this step
C22_Answers(i) == reqs[i].kind = "panic" /\ reqs[i].pc # "done" /\ reqs'[i].pc = "done" /\ reqs'[i].status = 200

C22_Emptied(u) ==
    \A p \in C19_OwnedIds(u) :
        /\ RowsOfProject(p)' = {}
        /\ \A e \in Environments : listVersions(p, e)' = <<>>

\* C22: with flushEnvs set, when the cascade has answered no row of any
\* project the user owns is left and listVersions is empty for each of
\* them; the flush step changes no named secret and appends no audit entry.
C22_FlushRemovesAll ==
    [][C22_Frame /\ \A i \in Slots : (C22_Answers(i) /\ settings[reqs[i].user].flushEnvs) => C22_Emptied(reqs[i].user)]_vars

\* C22 as amended: with flushEnvs set the flush sub-action is reported as
\* exactly one of succeeded and failed; when it is reported as succeeded no
\* row of any owned project is left and listVersions is empty for each of
\* them; a store error in it is reported as flushError and leaves the rows
\* of the projects not yet reached; no step of it changes a named secret,
\* a project or the audit log.
C22_FlushRemovesAllUnlessFailed ==
    [][C22_Frame /\ \A i \in Slots : (C22_Answers(i) /\ settings[reqs[i].user].flushEnvs) =>
                        /\ reqs'[i].body.results.flushEnvs # reqs'[i].body.results.flushError
                        /\ reqs'[i].body.results.flushEnvs => C22_Emptied(reqs[i].user)]_vars

\* only the flush was configured: p1 and p2 are empty, the secret of p1,
\* the collaborator of p1 and the four audit entries are as before
C22_Witness ==
    \E i \in Slots :
        /\ Finished(i, "panic", 200) /\ reqs[i].user = "u1"
        /\ reqs[i].body.results.flushEnvs /\ reqs[i].body.results.flushedCount = 3
        /\ ~settings["u1"].downloadEnvs /\ ~settings["u1"].revokeCollaborators
        /\ RowsOfProject("p1") = {} /\ RowsOfProject("p2") = {}
        /\ \E x \in secrets : x.id = 5 /\ x.projectId = "p1" /\ x.blob = encryptEnv(1, 0)
        /\ Len(projects["p1"].members) = 1
        /\ Len(envLogs) = 4

\* project p has no collaborator: the Permission Evaluator admits its owner
\* u to everything and refuses every other user both read and write
C23_OwnerOnly(u, p) ==
    /\ projects[p].members = <<>>
    /\ \A perm \in Permissions :
          /\ requireProjectAccess(perm, u, p) = 0
          /\ \A m \in Users \ {u} : requireProjectAccess(perm, m, p) = 403
    /\ requireProjectOwnership(u, p) = 0

\* C23: with revokeCollaborators set, when the cascade has answered the
\* members list of every project the user owns is empty: every former
\* collaborator is refused read and write, the owner keeps full access.
C23_AllRevoked ==
    \A i \in Slots :
        (Finished(i, "panic", 200) /\ settings[reqs[i].user].revokeCollaborators) =>
            \A p \in C19_OwnedIds(reqs[i].user) : C23_OwnerOnly(reqs[i].user, p)

\* C23 as amended: with revokeCollaborators set the revoke sub-action is
\* reported as exactly one of succeeded and failed; when it is reported as
\* succeeded the members list of every owned project is empty, every other
\* user is refused read and write and the owner keeps full access; a store
\* error in it is reported as revokeError and leaves the members of the
\* projects not yet reached.
C23_AllRevokedUnlessFailed ==
    \A i \in Slots :
        (Finished(i, "panic", 200) /\ settings[reqs[i].user].revokeCollaborators) =>
            /\ reqs[i].body.results.revokeCollaborators # reqs[i].body.results.revokeError
            /\ reqs[i].body.results.revokeCollaborators =>
                  \A p \in C19_OwnedIds(reqs[i].user) : C23_OwnerOnly(reqs[i].user, p)

\* after the revoke the upload of u2, a write collaborator of p1 until then,
\* is refused
C23_Witness ==
    \E i \in Slots :
        /\ Finished(i, "upload", 403) /\ reqs[i].user = "u2" /\ reqs[i].projectId = "p1"
        /\ settings["u1"].revokeCollaborators
        /\ projects["p1"].members = <<>> /\ projects["p1"].v = 2
        /\ projects["p1"].createdBy = "u1"

\* a sub-action whose flag is set has run and is reported as exactly one of
\* succeeded and failed; one whose flag is off is reported as neither
C24_Reported(flag, succeeded, failed) == IF flag THEN succeeded # failed ELSE ~succeeded /\ ~failed

C24_Results(i) ==
    LET flags == settings[reqs[i].user]
        results == reqs[i].body.results
    IN  /\ C24_Reported(flags.downloadEnvs, results.downloadEnvs, results.downloadError)
        /\ C24_Reported(flags.flushEnvs, results.flushEnvs, results.flushError)
        /\ C24_Reported(flags.revokeCollaborators, results.revokeCollaborators, results.revokeError)

\* what a step of the cascade of slot i may write
C24_Writes(i) ==
    LET flags == settings[reqs[i].user]
    IN  /\ ~flags.flushEnvs => envFiles' = envFiles
        /\ ~flags.revokeCollaborators => projects' = projects
        /\ (~flags.downloadEnvs /\ reqs'[i].pc # "done") => reqs'[i].local.blocks = <<>>
        /\ secrets' = secrets /\ envLogs' = envLogs /\ settings' = settings

\* C24: each enabled sub-action of the cascade is attempted whether or not
\* an earlier one failed and is reported as succeeded or as failed on its
\* own; a sub-action whose flag is off writes nothing and is reported as
\* neither.
C24_SubActionsIndependent ==
    [][\A i \in Slots :
         /\ (reqs[i].kind = "panic" /\ reqs'[i] # reqs[i]) => C24_Writes(i)
         /\ (reqs[i].kind = "panic" /\ reqs[i].pc # "done" /\ reqs'[i].status = 200) => C24_Results(i)']_vars

\* the export failed on a store error; flush and revoke ran all the same
C24_Witness ==
    \E i \in Slots :
        /\ Finished(i, "panic", 200) /\ reqs[i].user = "u1"
        /\ reqs[i].body.results.downloadError /\ ~reqs[i].body.results.downloadEnvs
        /\ reqs[i].body.results.flushEnvs /\ reqs[i].body.results.revokeCollaborators
        /\ RowsOfProject("p1") = {} /\ RowsOfProject("p2") = {}
        /\ projects["p1"].members = <<>>
        /\ faults = 1

\* decryptEnv was handed the blob encryptEnv returned, as it was returned
C25_Untouched == cipher.pc = "returned" /\ cipher.blob = cipher.sealed /\ cipher.blob.iv.len = IV_LENGTH /\ cipher.blob.authTag.len = AUTH_TAG_LENGTH

\* C25: decryptEnv of the blob encryptEnv returned for a text returns
\* exactly that text.
C25_RoundTrip == C25_Untouched => (cipher.out.ok /\ cipher.out.data = cipher.data)

\* the thrown error of a failed tag verification
C26_IntegrityError == [ok |-> FALSE, error |-> "Decryption failed: data may be corrupted or tampered with", data |-> 0]

\* decryptEnv was handed a blob of encryptEnv with one bit changed
C26_Modified ==
    /\ cipher.pc = "returned"
    /\ cipher.sealed.iv.len = IV_LENGTH /\ cipher.sealed.authTag.len = AUTH_TAG_LENGTH
    /\ cipher.blob # cipher.sealed

\* C26: for a blob of encryptEnv with any single bit of its ciphertext, its
\* nonce or its tag changed, decryptEnv throws the integrity error and
\* returns no plaintext, neither the original nor another one.
C26_TamperDetected == C26_Modified => cipher.out = C26_IntegrityError

\* a bit of the nonce was changed, the ciphertext and the tag are as
\* encryptEnv returned them
C26_Witness ==
    /\ C26_Modified
    /\ cipher.blob.iv # cipher.sealed.iv
    /\ cipher.blob.encryptedData = cipher.sealed.encryptedData /\ cipher.blob.authTag = cipher.sealed.authTag
    /\ cipher.sealed = encryptEnv(cipher.data, cipher.sealed.iv.val)
    /\ ~cipher.out.ok

\* the errors decryptEnv throws for a parameter of the wrong length
C27_ValidationErrors == {"Invalid IV length", "Invalid auth tag length"}

\* C27: decryptEnv accepts a nonce of 12 to 16 bytes together with a tag of
\* 16 bytes and decrypts the blob sealed with them; every other nonce or
\* tag length is rejected with the error of the length check.
C27_LengthsChecked ==
    cipher.pc = "returned" =>
        IF cipher.blob.iv.len \in 12..16 /\ cipher.blob.authTag.len = 16
        THEN cipher.out.error \notin C27_ValidationErrors /\ (cipher.blob = cipher.sealed => cipher.out.ok)
        ELSE ~cipher.out.ok /\ cipher.out.error \in C27_ValidationErrors

\* the download of slot i answers in this step for a row whose tag does
\* not validate
C28_Corrupted(i) ==
    /\ reqs[i].kind = "download" /\ reqs[i].pc = "find" /\ reqs'[i].pc = "done"
    /\ \E row \in DownloadCandidates(reqs[i].projectId, reqs[i].environment, reqs[i].version) :
          decryptEnv(row.blob.encryptedData, row.blob.iv, row.blob.authTag) = C26_IntegrityError

\* C28: the download of a row whose tag does not validate fails with the
\* integrity error, handed to the caller as decryptEnv threw it: the answer
\* is not the answer of a missing row or of another failure, and it holds
\* no plaintext.
C28_IntegrityErrorPropagated ==
    [][\A i \in Slots : C28_Corrupted(i) =>
          /\ reqs'[i].status \notin {200, 404}
          /\ reqs'[i].body.content = 0
          /\ reqs'[i].body.error = C26_IntegrityError.error]_vars

\* the entries of members that name user u
C30_EntriesOf(p, u) == {k \in 1..Len(projects[p].members) : projects[p].members[k].userId = u}

\* C30: whatever add-member and remove-member calls have run, interleaved
\* ones for the same user included, the members of a project hold at most
\* one entry per userId.
C30_OneEntryPerMember == \A p \in DOMAIN projects : \A u \in Users : Cardinality(C30_EntriesOf(p, u)) <= 1

\* C31: in every reachable state no entry of a project's members names the
\* project's owner.
C31_OwnerNotMember ==
    \A p \in DOMAIN projects : \A k \in 1..Len(projects[p].members) : projects[p].members[k].userId # projects[p].createdBy

\* the remove-member request of slot i takes its save step
C32_Removes(i) == reqs[i].kind = "removeMember" /\ reqs[i].pc = "save" /\ reqs'[i] # reqs[i]

\* the user to remove has no entry in the project the request loaded
C32_Absent(i) == \A k \in 1..Len(reqs[i].project.members) : reqs[i].project.members[k].userId # reqs[i].memberId

\* the users other than u that members lists, in order
C32_Others(members, u) ==
    LET others == SelectSeq(members, LAMBDA m : m.userId # u)
    IN  [k \in 1..Len(others) |-> others[k].userId]

\* C32: remove-member of a user without an entry writes nothing and is
\* answered without error, so a second call leaves members as the first
\* left them; no remove-member call takes out an entry of another user.
C32_RemoveAbsentIsNoOp ==
    [][\A i \in Slots :
         /\ C32_Removes(i) =>
               /\ C32_Others(projects'[reqs[i].projectId].members, reqs[i].memberId) = C32_Others(projects[reqs[i].projectId].members, reqs[i].memberId)
               /\ C32_Absent(i) => (projects' = projects /\ reqs'[i].pc = "respond")
         /\ (reqs[i].kind = "removeMember" /\ reqs[i].pc = "respond" /\ reqs'[i] # reqs[i]) => (reqs'[i].status = 200 /\ projects' = projects)]_vars

\* u3 was added, then u2, who has no entry, was removed twice: both calls
\* are answered 200 with u3's entry
C32_Witness ==
    /\ \A i \in Slots : Finished(i, "removeMember", 200) /\ reqs[i].memberId = "u2" /\ Len(reqs[i].body.members) = 1
    /\ started = 3
    /\ Len(projects["p1"].members) = 1 /\ projects["p1"].members[1].userId = "u3"
    /\ projects["p1"].v = 1

\* the secret mutation of slot i is answered as successful in this step
C33_Mutated(i) ==
    /\ reqs[i].kind \in {"createSecret", "updateSecret", "deleteSecret"}
    /\ reqs[i].pc # "done" /\ reqs'[i].pc = "done" /\ reqs'[i].status \in {200, 201}

\* C33: when a create, update or delete of a named secret is answered as
\* successful, the audit log holds an entry of that request: one more than
\* before the mutation, naming the actor and the project.
C33_SecretMutationsAudited ==
    [][\A i \in Slots : C33_Mutated(i) =>
          \E k \in 1..Len(envLogs') : envLogs'[k].performedBy = reqs[i].user /\ envLogs'[k].projectId = reqs[i].projectId]_vars

\* the routes that answer with record metadata
C34_MetadataRoutes == {"upload", "edit", "versions", "createSecret", "listSecrets", "updateSecret"}

\* C34: no answer of upload, edit, the version list, secret create, the
\* secret list and secret update carries encryptedData, iv or authTag,
\* neither as the answered object nor in an element of an answered list.
C34_NoBlobInMetadata ==
    \A i \in Slots :
        (reqs[i].pc = "done" /\ reqs[i].kind \in C34_MetadataRoutes) =>
            /\ reqs[i].body.blob = NoBlob
            /\ \A k \in 1..Len(reqs[i].body.items) : reqs[i].body.items[k].blob = NoBlob

\* the version list of p1 holds dev and prod version 1, whose rows hold
\* their three Buffers
C34_Witness ==
    \E i \in Slots :
        /\ Finished(i, "versions", 200)
        /\ Len(reqs[i].body.items) = 2
        /\ reqs[i].body.items[1].environment = "dev" /\ reqs[i].body.items[2].environment = "prod"
        /\ \A k \in 1..2 : \E f \in envFiles : f.id = reqs[i].body.items[k].id /\ f.blob.iv.len = IV_LENGTH /\ f.blob # NoBlob

\* the versions of (projectId, environment) in the export of a cascade
C35_Exported(local, projectId, environment) ==
    {local.blocks[k].version : k \in {j \in 1..Len(local.blocks) : local.blocks[j].project = projectId /\ local.blocks[j].environment = environment}}

\* C35: where the export of a cascade has succeeded, a pass of its flush
\* removes, for every environment of the project, no version above the one
\* whose content is in the export: the highest removed version is the
\* exported one.
C35_FlushRemovesExported ==
    [][\A i \in Slots :
          (reqs[i].kind = "panic" /\ reqs[i].pc = "flush" /\ reqs'[i] # reqs[i] /\ reqs[i].local.results.downloadEnvs) =>
              \A f \in envFiles \ envFiles' :
                  (\A g \in envFiles \ envFiles' : g.environment = f.environment => g.version <= f.version)
                      => f.version \in C35_Exported(reqs[i].local, f.projectId, f.environment)]_vars

\* request i names, under its project, a record that exists in another one
C36_Foreign(i) ==
    \/ /\ reqs[i].kind \in {"edit", "delete", "content"}
       /\ \E f \in envFiles : f.id = reqs[i].envFileId /\ f.projectId # reqs[i].projectId
    \/ /\ reqs[i].kind \in {"secretContent", "updateSecret", "deleteSecret"}
       /\ \E x \in secrets : x.id = reqs[i].secretId /\ x.projectId # reqs[i].projectId

\* C36: edit, delete and content read of an env file and get, update and
\* delete of a secret, called with the id of a record of another project
\* than the authorized one, answer 404 at their lookup and leave the rows,
\* the secrets and the audit log as they were.
C36_ScopedToProject ==
    [][\A i \in Slots :
          (C36_Foreign(i) /\ reqs'[i] # reqs[i] /\ reqs[i].pc # "idle") =>
              /\ envFiles' = envFiles /\ secrets' = secrets /\ envLogs' = envLogs
              /\ reqs[i].pc = "find" => (reqs'[i].pc = "done" /\ reqs'[i].status = 404)]_vars

\* every one of the six operations has answered 404 to the id of a record
\* that another project still holds
C36_WitnessAt(kind) == \E i \in Slots : Finished(i, kind, 404) /\ C36_Foreign(i)

C36_Witness == \E kind \in {"edit", "delete", "content", "secretContent", "updateSecret", "deleteSecret"} : C36_WitnessAt(kind)

C37_Downloads == {k \in 1..Len(envLogs) : envLogs[k].action = "download"}

\* C37: a download that ends without plaintext (404, no matching row; 500,
\* the row does not decrypt) leaves the audit log as it was, and the log
\* gains an action=download entry only in a step that answers a download
\* with 200 and the plaintext.
C37_FailedDownloadNotLogged ==
    [][/\ \A i \in Slots :
             (reqs[i].kind = "download" /\ reqs[i].pc # "done" /\ reqs'[i].pc = "done" /\ reqs'[i].status # 200)
                 => envLogs' = envLogs
       /\ Cardinality(C37_Downloads') > Cardinality(C37_Downloads)
             => \E i \in Slots : /\ reqs[i].kind = "download" /\ reqs[i].pc = "log"
                                 /\ reqs'[i].pc = "done" /\ reqs'[i].status = 200
                                 /\ reqs'[i].body.content = reqs[i].local.data]_vars

\* a download of the latest version of p1/dev has met the corrupted row and
\* answered 500; the log holds no download entry of that row
C37_Witness ==
    \E i \in Slots :
        /\ Finished(i, "download", 500)
        /\ reqs[i].version = 0
        /\ \E f \in envFiles : f.projectId = "p1" /\ f.environment = "dev" /\ f.version = 2
        /\ \A k \in C37_Downloads : envLogs[k].version # 2

\* a download has found no row, after the flush of a panic cascade
C37_WitnessNotFound == \E i \in Slots : Finished(i, "download", 404)

C38_DeleteEntries(id) == {k \in 1..Len(envLogs) : envLogs[k].action = "delete" /\ envLogs[k].envFileId = id}

C38_DeletedBy(id) == {i \in Slots : Finished(i, "delete", 200) /\ reqs[i].envFileId = id}

\* C38: for each row the log holds at most one action=delete entry and at
\* most one delete request has been answered 200, also when two deletes of
\* the row interleave.
C38_DeleteOnce ==
    \A id \in 1..nextId :
        /\ Cardinality(C38_DeleteEntries(id)) <= 1
        /\ Cardinality(C38_DeletedBy(id)) <= 1

====
